---- MODULE Spec2Model ----
(***************************************************************************)
(* Model of the bill-splitting calculators of splitbillsfairly:            *)
(* the even-split calculator and the fair-split settlement engine          *)
(* (distributeCentsEvenly, compute*Owed, computePaid, computeSettlement,   *)
(* calculate).                                                             *)
(*                                                                         *)
(* Money typed by the user is a decimal number; it is modelled in mills    *)
(* (thousandths of a currency unit) so that the conversion to cents,       *)
(* Math.round(x * 100), is a real rounding step.  Ledgers are in cents.    *)
(* JavaScript objects keyed by person id are functions whose domain is the *)
(* set of keys; arrays are sequences.                                      *)
(***************************************************************************)
EXTENDS Integers, Sequences, FiniteSets, TLC

VARIABLES
  people,      \* state.people: sequence of [id, name]
  scenario,    \* state.scenario
  restaurant,  \* state.restaurant: [items, taxTipEnabled, taxTipAmount, taxTipMethod, payers]
  groupExpense,\* state.groupExpense: [items]
  trip,        \* state.trip: [lodgingItems, sharedItems]
  nextIds,     \* the id counters: [nextPersonId, nextItemId, nextGroupExpenseItemId,
               \* nextLodgingItemId, nextSharedItemId]
  calc,        \* what the last calculate() computed: [done, active, owedCents, paidCents,
               \* people, settlements]; active: the results are shown
  dist,        \* one call of distributeCentsEvenly: [totalCents, participantIds, done, shares]
  settle,      \* one call of computeSettlement: [owedCents, paidCents, done, people, settlements]
  even,        \* the even-split calculator: [billTotal, numPeople, resultValue]
  overtime     \* the overtime calculator: its input fields and the results it shows

vars == <<people, scenario, restaurant, groupExpense, trip, nextIds, calc, dist, settle, even,
          overtime>>

-----------------------------------------------------------------------------
(* Bounds of the model *)

MaxPeople == 3        \* largest roster / participant list explored
MaxTotalCents == 7    \* largest total handed to distributeCentsEvenly on its own
MinTotalCents == 0 - 2 \* smallest (negative) total handed to distributeCentsEvenly

MaxItems == 2         \* most items in one list of expenses
MaxRuns == 2          \* most runs of calculate() on one scenario state
MaxPagePeople == 2    \* largest roster the page is brought to by addPerson
MaxPersonId == 2      \* largest person id addPerson hands out
MaxItemId == 1        \* largest item id an add*Item handler hands out
MaxPageItems == 2     \* most items on the page, all lists together, while it is edited
MaxEvenPeople == 8    \* largest head count typed into the even-split calculator

\* amounts typed into an amount input, in mills
AmountValues == {0, 5, 100000}

\* quantities typed into a qty input
QtyValues == {1, 2}

\* amounts typed into a payer-amount-input, in mills
PayerAmountValues == {0, 4000}

\* amounts typed into the tax/tip input, in mills
TaxTipValues == {0, 1000}

\* owed / paid entries handed to computeSettlement on its own
LedgerValues == {0, 1, 3}

\* `Person ${n}`, the name addPerson gives
PersonName(n) == <<"Person 1", "Person 2", "Person 3", "Person 4", "Person 5", "Person 6">>[n]

\* a name typed into a person-name-input
TypedName == "Sam"

-----------------------------------------------------------------------------
(* Generic helpers: JavaScript built-ins used by the code *)

Range(s) == {s[i] : i \in 1..Len(s)}

\* the object {}
EmptyMap == [k \in {} |-> 0]

\* obj[k] || 0
Get(obj, k) == IF k \in DOMAIN obj THEN obj[k] ELSE 0

Abs(x) == IF x < 0 THEN 0 - x ELSE x

Min(a, b) == IF a < b THEN a ELSE b

\* Math.floor(a / b) for b > 0
FloorDiv(a, b) == a \div b

RECURSIVE SumSeq(_)
SumSeq(s) == IF s = <<>> THEN 0 ELSE Head(s) + SumSeq(Tail(s))

RECURSIVE SumMap(_)
\* Object.values(obj).reduce((a, b) => a + b, 0)
SumMap(obj) ==
  IF DOMAIN obj = {} THEN 0
  ELSE LET k == CHOOSE x \in DOMAIN obj : TRUE
       IN obj[k] + SumMap([x \in DOMAIN obj \ {k} |-> obj[x]])

\* Variant: a sort that is not stable, equal keys come out in reverse order
SortDescBy_tiesReversed(s, keys) ==
  LET n == Len(s)
      rank == [i \in 1..n |-> Cardinality({j \in 1..n :
                                   \/ keys[j] > keys[i]
                                   \/ keys[j] = keys[i] /\ j > i}) + 1]
  IN [r \in 1..n |-> s[CHOOSE i \in 1..n : rank[i] = r]]

\* Array.prototype.sort with comparator (a, b) => key(b) - key(a): descending
\* by key, and stable (equal keys keep their order).  keys[i] is the key of s[i].
SortDescBy(s, keys) ==
  LET n == Len(s)
      rank == [i \in 1..n |-> Cardinality({j \in 1..n :
                                   \/ keys[j] > keys[i]
                                   \/ keys[j] = keys[i] /\ j < i}) + 1]
  IN [r \in 1..n |-> s[CHOOSE i \in 1..n : rank[i] = r]]

\* all sequences of distinct elements of S, of every length 0..Cardinality(S)
RECURSIVE DistinctSeqs(_)
DistinctSeqs(S) ==
  {<<>>} \cup UNION {{<<x>> \o t : t \in DistinctSeqs(S \ {x})} : x \in S}

-----------------------------------------------------------------------------
(* distributeCentsEvenly *)

\* index (0-based) that forEach last visits pid at
LastIndex(ids, pid) ==
  (CHOOSE i \in 1..Len(ids) :
      /\ ids[i] = pid
      /\ \A j \in (i+1)..Len(ids) : ids[j] # pid) - 1

\* Variants of distributeCentsEvenly with a plausible slip each
\* (the remainder dropped; the whole remainder given to the first participant;
\* the remainder given to the last participants instead of the first).
distributeCentsEvenly_dropRemainder(totalCents, participantIds) ==
  IF Len(participantIds) = 0 THEN EmptyMap
  ELSE [pid \in Range(participantIds) |-> FloorDiv(totalCents, Len(participantIds))]

distributeCentsEvenly_lumpRemainder(totalCents, participantIds) ==
  IF Len(participantIds) = 0 THEN EmptyMap
  ELSE LET baseShare == FloorDiv(totalCents, Len(participantIds))
           remainder == totalCents - (baseShare * Len(participantIds))
       IN [pid \in Range(participantIds) |->
             baseShare + (IF LastIndex(participantIds, pid) = 0 THEN remainder ELSE 0)]

distributeCentsEvenly_remainderLast(totalCents, participantIds) ==
  IF Len(participantIds) = 0 THEN EmptyMap
  ELSE LET baseShare == FloorDiv(totalCents, Len(participantIds))
           remainder == totalCents - (baseShare * Len(participantIds))
       IN [pid \in Range(participantIds) |->
             baseShare + (IF LastIndex(participantIds, pid) >= Len(participantIds) - remainder
                          THEN 1 ELSE 0)]

distributeCentsEvenly(totalCents, participantIds) ==
  IF Len(participantIds) = 0 THEN EmptyMap
  ELSE LET baseShare == FloorDiv(totalCents, Len(participantIds))
           remainder == totalCents - (baseShare * Len(participantIds))
       IN [pid \in Range(participantIds) |->
             baseShare + (IF LastIndex(participantIds, pid) < remainder THEN 1 ELSE 0)]

-----------------------------------------------------------------------------
(* computeSettlement *)

\* state.people.map(p => ({id, name, owedCents, paidCents, netCents: paid - owed}))
NetPeople(owedCents, paidCents) ==
  [i \in 1..Len(people) |->
     LET owed == Get(owedCents, people[i].id)
         paid == Get(paidCents, people[i].id)
     IN [id |-> people[i].id, name |-> people[i].name,
         owedCents |-> owed, paidCents |-> paid, netCents |-> paid - owed]]

\* people.reduce((sum, p) => sum + p.netCents, 0)
SumNets(ps) == SumSeq([i \in 1..Len(ps) |-> ps[i].netCents])

\* Variant: among equal absolute nets the last person of the roster is taken
LargestAbsNet_lastOnTies(ps) ==
  CHOOSE i \in 1..Len(ps) :
    \A j \in 1..Len(ps) :
      \/ Abs(ps[j].netCents) < Abs(ps[i].netCents)
      \/ Abs(ps[j].netCents) = Abs(ps[i].netCents) /\ j <= i

\* position in ps of sorted[0], for sorted = [...ps].sort by |netCents| descending
LargestAbsNet(ps) ==
  SortDescBy([i \in 1..Len(ps) |-> i], [i \in 1..Len(ps) |-> Abs(ps[i].netCents)])[1]

\* Variant: the correction is added instead of subtracted
CorrectNets_wrongSign(ps) ==
  IF SumNets(ps) # 0
  THEN [ps EXCEPT ![LargestAbsNet(ps)].netCents = @ + SumNets(ps)]
  ELSE ps

\* "Handle rounding errors": sorted[0].netCents -= sumNets
\* (sorted holds the same objects as people, so the entry of people changes)
CorrectNets(ps) ==
  LET sumNets == SumNets(ps)
  IN IF sumNets # 0
     THEN [ps EXCEPT ![LargestAbsNet(ps)].netCents = @ - sumNets]
     ELSE ps

\* the creditors array before sorting
Creditors(ps) ==
  LET sel == SelectSeq(ps, LAMBDA p : p.netCents > 0)
  IN [i \in 1..Len(sel) |-> [name |-> sel[i].name, amountCents |-> sel[i].netCents]]

\* the debtors array before sorting
Debtors(ps) ==
  LET sel == SelectSeq(ps, LAMBDA p : p.netCents < 0)
  IN [i \in 1..Len(sel) |-> [name |-> sel[i].name, amountCents |-> Abs(sel[i].netCents)]]

\* Variant of the loop: pays one cent per iteration instead of the minimum
RECURSIVE SettleLoop_centByCent(_, _, _)
SettleLoop_centByCent(debtors, creditors, settlements) ==
  IF Len(debtors) > 0 /\ Len(creditors) > 0
  THEN LET debtor == debtors[1]
           creditor == creditors[1]
           paymentCents == 1
           pushed == Append(settlements, [from |-> debtor.name, to |-> creditor.name,
                                          amountCents |-> paymentCents])
           dLeft == debtor.amountCents - paymentCents
           cLeft == creditor.amountCents - paymentCents
       IN SettleLoop_centByCent(
                     IF dLeft = 0 THEN Tail(debtors)
                                  ELSE [debtors EXCEPT ![1].amountCents = dLeft],
                     IF cLeft = 0 THEN Tail(creditors)
                                  ELSE [creditors EXCEPT ![1].amountCents = cLeft],
                     pushed)
  ELSE [settlements |-> settlements, debtors |-> debtors, creditors |-> creditors]

\* the while loop; returns the working arrays as the loop leaves them
RECURSIVE SettleLoop(_, _, _)
SettleLoop(debtors, creditors, settlements) ==
  IF Len(debtors) > 0 /\ Len(creditors) > 0
  THEN LET debtor == debtors[1]
           creditor == creditors[1]
           paymentCents == Min(debtor.amountCents, creditor.amountCents)
           pushed == IF paymentCents > 0
                     THEN Append(settlements, [from |-> debtor.name, to |-> creditor.name,
                                               amountCents |-> paymentCents])
                     ELSE settlements
           dLeft == debtor.amountCents - paymentCents
           cLeft == creditor.amountCents - paymentCents
       IN SettleLoop(IF dLeft = 0 THEN Tail(debtors)
                                  ELSE [debtors EXCEPT ![1].amountCents = dLeft],
                     IF cLeft = 0 THEN Tail(creditors)
                                  ELSE [creditors EXCEPT ![1].amountCents = cLeft],
                     pushed)
  ELSE [settlements |-> settlements, debtors |-> debtors, creditors |-> creditors]

computeSettlement(owedCents, paidCents) ==
  LET ps == CorrectNets(NetPeople(owedCents, paidCents))
      cs == Creditors(ps)
      ds == Debtors(ps)
      creditors == SortDescBy(cs, [i \in 1..Len(cs) |-> cs[i].amountCents])
      debtors == SortDescBy(ds, [i \in 1..Len(ds) |-> ds[i].amountCents])
  IN [people |-> ps, settlements |-> SettleLoop(debtors, creditors, <<>>).settlements]

-----------------------------------------------------------------------------
(* Owed and paid ledgers *)

\* Variant: the fraction of a cent is cut off instead of rounded
RoundCents_truncate(mills) == FloorDiv(mills, 10)

\* Math.round(x * 100) for an amount x given in mills: half a cent rounds up
RoundCents(mills) == FloorDiv(mills + 5, 10)

\* item.qty || 1
QtyOf(item) == IF item.qty = 0 THEN 1 ELSE item.qty

\* Math.round(item.amount * (item.qty || 1) * 100), restaurant and group items
ItemCents(item) == RoundCents(item.amount * QtyOf(item))

\* Math.round(item.amount * 100), lodging and shared items (they have no qty)
TripItemCents(item) == RoundCents(item.amount)

\* state.people.map(p => p.id)
PeopleIds == [i \in 1..Len(people) |-> people[i].id]

\* Variant: the ledger is not started afresh, it keeps what the run before left
ZeroLedger_carriedOver == [id \in Range(PeopleIds) |-> Get(calc.owedCents, id)]

\* owedCents = {}; state.people.forEach(p => owedCents[p.id] = 0)
ZeroLedger == [id \in Range(PeopleIds) |-> 0]

\* Object.entries(shares).forEach(([pid, share]) =>
\*   ledger[pid] = (ledger[pid] || 0) + share)
AddShares(ledger, shares) ==
  [id \in DOMAIN ledger \cup DOMAIN shares |-> Get(ledger, id) + Get(shares, id)]

\* Variant: an item nobody is checked for is charged to the whole roster
RECURSIVE AddItemsOwed_chargesRoster(_, _, _)
AddItemsOwed_chargesRoster(owedCents, items, cents) ==
  IF items = <<>> THEN owedCents
  ELSE LET item == Head(items)
           next == IF item.amount = 0
                   THEN owedCents
                   ELSE AddShares(owedCents,
                          distributeCentsEvenly(Head(cents),
                            IF Len(item.participants) = 0 THEN PeopleIds
                            ELSE item.participants))
       IN AddItemsOwed_chargesRoster(next, Tail(items), Tail(cents))

\* items.forEach(item => { if (item.participants.length === 0 || !item.amount) return;
\*   add distributeCentsEvenly(cents of item, item.participants) to owedCents })
\* cents[i] is the total of items[i] in cents.
RECURSIVE AddItemsOwed(_, _, _)
AddItemsOwed(owedCents, items, cents) ==
  IF items = <<>> THEN owedCents
  ELSE LET item == Head(items)
           next == IF Len(item.participants) = 0 \/ item.amount = 0
                   THEN owedCents
                   ELSE AddShares(owedCents,
                                  distributeCentsEvenly(Head(cents), item.participants))
       IN AddItemsOwed(next, Tail(items), Tail(cents))

\* The triples <<taxTipCents, owed, subtotal>>, among the values the model
\* draws, for which the double product taxTipCents * (owed / subtotal) comes out
\* just below the whole number it equals: 100 * (2900 / 10000) is
\* 28.999999999999996, so Math.floor gives 28 where the exact quotient is 29.
DoubleFloorShort == {<<100, 2900, 10000>>}

\* Math.floor(taxTipCents * (owed / subtotal)) as computed in doubles
FloorOfProduct(taxTipCents, owed, subtotal) ==
  FloorDiv(taxTipCents * owed, subtotal)
    - (IF <<taxTipCents, owed, subtotal>> \in DoubleFloorShort THEN 1 ELSE 0)

\* Variant: the leftover cents go to the largest fractional remainders of the
\* exact shares (largest-remainder method), the floors are exact
ProportionalTaxTip_largestRemainder(owedCents, taxTipCents) ==
  LET totalSubtotalCents == SumMap(owedCents)
      n == Len(people)
      share == [i \in 1..n |->
                  FloorDiv(taxTipCents * owedCents[people[i].id], totalSubtotalCents)]
      remainingTaxTip == taxTipCents - SumSeq(share)
      order == SortDescBy([i \in 1..n |-> i],
                 [i \in 1..n |-> (taxTipCents * owedCents[people[i].id]) % totalSubtotalCents])
      place(i) == CHOOSE k \in 1..n : order[k] = i
  IN IF totalSubtotalCents > 0
     THEN [id \in DOMAIN owedCents |->
             IF id \in Range(PeopleIds)
             THEN LET i == CHOOSE j \in 1..n : people[j].id = id
                  IN owedCents[id] + share[i]
                       + (IF place(i) - 1 < remainingTaxTip THEN 1 ELSE 0)
             ELSE owedCents[id]]
     ELSE owedCents

\* the proportional tax/tip branch of computeRestaurantOwed
ProportionalTaxTip(owedCents, taxTipCents) ==
  LET totalSubtotalCents == SumMap(owedCents)
      n == Len(people)
      \* Math.floor(taxTipCents * (owedCents[p.id] / totalSubtotalCents))
      share == [i \in 1..n |->
                  FloorOfProduct(taxTipCents, owedCents[people[i].id], totalSubtotalCents)]
      remainingTaxTip == taxTipCents - SumSeq(share)
      \* proportionalShares.sort((a, b) => b.proportion - a.proportion)
      order == SortDescBy([i \in 1..n |-> i], [i \in 1..n |-> owedCents[people[i].id]])
      place(i) == CHOOSE k \in 1..n : order[k] = i
  IN IF totalSubtotalCents > 0
     THEN [id \in DOMAIN owedCents |->
             IF id \in Range(PeopleIds)
             THEN LET i == CHOOSE j \in 1..n : people[j].id = id
                  IN owedCents[id] + share[i]
                       + (IF place(i) - 1 < remainingTaxTip THEN 1 ELSE 0)
             ELSE owedCents[id]]
     ELSE owedCents

\* Variant: the equal tax/tip is split among the people who owe something
EqualTaxTip_participantsOnly(owedCents, taxTipCents) ==
  AddShares(owedCents,
            distributeCentsEvenly(taxTipCents,
                                  SelectSeq(PeopleIds, LAMBDA id : owedCents[id] > 0)))

\* the equal tax/tip branch of computeRestaurantOwed
EqualTaxTip(owedCents, taxTipCents) ==
  AddShares(owedCents, distributeCentsEvenly(taxTipCents, PeopleIds))

computeRestaurantOwed ==
  LET items == restaurant.items
      subtotals == AddItemsOwed(ZeroLedger, items,
                                [i \in 1..Len(items) |-> ItemCents(items[i])])
      taxTipCents == RoundCents(restaurant.taxTipAmount)
  IN IF restaurant.taxTipEnabled /\ restaurant.taxTipAmount > 0
     THEN IF restaurant.taxTipMethod = "equal"
          THEN EqualTaxTip(subtotals, taxTipCents)
          ELSE ProportionalTaxTip(subtotals, taxTipCents)
     ELSE subtotals

computeGroupExpenseOwed ==
  LET items == groupExpense.items
  IN AddItemsOwed(ZeroLedger, items, [i \in 1..Len(items) |-> ItemCents(items[i])])

computeTripOwed ==
  LET lodging == trip.lodgingItems
      shared == trip.sharedItems
      afterLodging == AddItemsOwed(ZeroLedger, lodging,
                                   [i \in 1..Len(lodging) |-> TripItemCents(lodging[i])])
  IN AddItemsOwed(afterLodging, shared,
                  [i \in 1..Len(shared) |-> TripItemCents(shared[i])])

\* Object.keys(payers).map(Number): integer keys come in ascending order
RECURSIVE PayerIds(_)
PayerIds(payers) ==
  IF DOMAIN payers = {} THEN <<>>
  ELSE LET least == CHOOSE k \in DOMAIN payers : \A j \in DOMAIN payers : k <= j
       IN <<least>> \o PayerIds([k \in DOMAIN payers \ {least} |-> payers[k]])

\* Variant: typed amounts are ignored, the total is always split evenly
PayerCredits_reconciled(payers, totalCents) ==
  distributeCentsEvenly(totalCents, PayerIds(payers))

\* Variant: without typed amounts the first checked payer is credited the total
PayerCredits_firstPays(payers, totalCents) ==
  IF SumMap(payers) > 0
  THEN [pid \in DOMAIN payers |-> RoundCents(payers[pid])]
  ELSE [pid \in DOMAIN payers |->
          IF \A q \in DOMAIN payers : pid <= q THEN totalCents ELSE 0]

\* what one payer map credits for one total: the typed amounts when they sum
\* to more than zero, the total split evenly among the checked payers else
PayerCredits(payers, totalCents) ==
  IF SumMap(payers) > 0
  THEN [pid \in DOMAIN payers |-> RoundCents(payers[pid])]
  ELSE distributeCentsEvenly(totalCents, PayerIds(payers))

\* Variant: the bill the payers are credited for leaves the quantities out
RestaurantPaid_qtyIgnored ==
  LET items == restaurant.items
      subtotalCents == SumSeq([i \in 1..Len(items) |-> RoundCents(items[i].amount)])
      taxTipCents == IF restaurant.taxTipEnabled
                     THEN RoundCents(restaurant.taxTipAmount) ELSE 0
      totalCents == subtotalCents + taxTipCents
      credits == PayerCredits(restaurant.payers, totalCents)
  IN IF DOMAIN restaurant.payers = {} THEN ZeroLedger
     ELSE [id \in DOMAIN ZeroLedger \cup DOMAIN credits |->
             IF id \in DOMAIN credits THEN credits[id] ELSE 0]

\* the restaurant branch of computePaid: paidCents[pid] = ... (assignment)
RestaurantPaid ==
  LET items == restaurant.items
      subtotalCents == SumSeq([i \in 1..Len(items) |-> ItemCents(items[i])])
      taxTipCents == IF restaurant.taxTipEnabled
                     THEN RoundCents(restaurant.taxTipAmount) ELSE 0
      totalCents == subtotalCents + taxTipCents
      credits == PayerCredits(restaurant.payers, totalCents)
  IN IF DOMAIN restaurant.payers = {} THEN ZeroLedger
     ELSE [id \in DOMAIN ZeroLedger \cup DOMAIN credits |->
             IF id \in DOMAIN credits THEN credits[id] ELSE 0]

\* Variant: an item that costs nothing still credits the amounts typed for it
RECURSIVE AddItemsPaid_zeroCostCredited(_, _, _)
AddItemsPaid_zeroCostCredited(paidCents, items, cents) ==
  IF items = <<>> THEN paidCents
  ELSE LET item == Head(items)
           next == IF DOMAIN item.payers = {}
                   THEN paidCents
                   ELSE AddShares(paidCents, PayerCredits(item.payers, Head(cents)))
       IN AddItemsPaid_zeroCostCredited(next, Tail(items), Tail(cents))

\* items.forEach(item => { if (payerIds.length === 0 || totalCents === 0) return;
\*   add the item's credits to paidCents })
RECURSIVE AddItemsPaid(_, _, _)
AddItemsPaid(paidCents, items, cents) ==
  IF items = <<>> THEN paidCents
  ELSE LET item == Head(items)
           next == IF DOMAIN item.payers = {} \/ Head(cents) = 0
                   THEN paidCents
                   ELSE AddShares(paidCents, PayerCredits(item.payers, Head(cents)))
       IN AddItemsPaid(next, Tail(items), Tail(cents))

computePaid ==
  IF scenario = "restaurant" THEN RestaurantPaid
  ELSE IF scenario = "group-expense"
  THEN LET items == groupExpense.items
       IN AddItemsPaid(ZeroLedger, items, [i \in 1..Len(items) |-> ItemCents(items[i])])
  ELSE LET lodging == trip.lodgingItems
           shared == trip.sharedItems
           afterLodging == AddItemsPaid(ZeroLedger, lodging,
                              [i \in 1..Len(lodging) |-> TripItemCents(lodging[i])])
       IN AddItemsPaid(afterLodging, shared,
                       [i \in 1..Len(shared) |-> TripItemCents(shared[i])])

\* the owed ledger calculate() asks for
OwedOfScenario ==
  IF scenario = "restaurant" THEN computeRestaurantOwed
  ELSE IF scenario = "group-expense" THEN computeGroupExpenseOwed
  ELSE computeTripOwed

-----------------------------------------------------------------------------
(* Even-split calculator *)

\* The value of an input field is <<>> when the field is empty and <<x>> when
\* it holds the number x: the bill total in mills, the head count as typed.

\* parseFloat(input.value) || 0 and parseInt(input.value) || 0
ParseOrZero(value) == IF value = <<>> THEN 0 ELSE value[1]

\* Variant: floor of the quotient plus the remainder cent
perPersonCents_floorPlusRemainder(billTotal, numPeople) ==
  LET totalCents == RoundCents(billTotal)
      baseShare == FloorDiv(totalCents, numPeople)
  IN baseShare + (IF totalCents - (baseShare * numPeople) > 0 THEN 1 ELSE 0)

\* Math.round((billTotal * 100) / numPeople) for a bill total in mills: the
\* quotient billTotal / (10 * numPeople) rounded to the nearest integer, a
\* half going up
perPersonCents(billTotal, numPeople) ==
  FloorDiv((2 * billTotal) + (10 * numPeople), 20 * numPeople)

\* formatCurrency(centsToDollars(cents)): '$' + Math.abs(cents / 100).toFixed(2),
\* as the characters shown: '$', the dollars, '.', and the two digits of cents
formatCurrency(cents) ==
  <<"$", Abs(cents) \div 100, ".", (Abs(cents) % 100) \div 10, Abs(cents) % 10>>

\* resultValue.textContent after calculate() of the even-split calculator ran
\* on the two input values
EvenResult(billValue, peopleValue) ==
  LET billTotal == ParseOrZero(billValue)
      numPeople == ParseOrZero(peopleValue)
      hasError == \/ billValue # <<>> /\ billTotal < 0
                  \/ peopleValue # <<>> /\ numPeople < 1
  IN IF hasError \/ billTotal <= 0 \/ numPeople < 1
     THEN formatCurrency(0)
     ELSE formatCurrency(perPersonCents(billTotal, numPeople))

-----------------------------------------------------------------------------
(* Overtime calculator (app.js) *)

\* Rates are in cents, hours in hours, multipliers in hundredths; the money
\* of the results is in hundredths of a cent, so that rate x multiplier and
\* rate x hours are exact.

RegularHoursDefault == 40    \* parseFloat(regularHoursInput.value) || 40
MultiplierDefault == 150     \* parseFloat(...) || 1.5

\* parseFloat(overtimeMultiplierSelect.value) for the options of the select
SelectMultiplier(option) == IF option = "1.5" THEN 150 ELSE 0

\* getMultiplier()
getMultiplier(o) ==
  IF o.multiplierSelect = "other"
  THEN IF ParseOrZero(o.customMultiplier) = 0 THEN MultiplierDefault
       ELSE o.customMultiplier[1]
  ELSE IF SelectMultiplier(o.multiplierSelect) = 0 THEN MultiplierDefault
       ELSE SelectMultiplier(o.multiplierSelect)

\* the arguments of one call of updateResults
Results(hourlyRate, overtimeRate, overtimeHours, regularHours, overtimePay, regularPay, totalPay) ==
  [hourlyRate |-> hourlyRate, overtimeRate |-> overtimeRate,
   overtimeHours |-> overtimeHours, regularHours |-> regularHours,
   overtimePay |-> overtimePay, regularPay |-> regularPay, totalPay |-> totalPay]

\* Variant: the directly entered overtime rate is not looked at
overtimeCalculate_directRateIgnored(o) ==
  LET hourlyRate == ParseOrZero(o.hourlyRate)
      overtimeHours == ParseOrZero(o.overtimeHours)
      regularHours == IF ParseOrZero(o.regularHours) = 0 THEN RegularHoursDefault
                      ELSE o.regularHours[1]
      hasError == \/ o.hourlyRate # <<>> /\ hourlyRate < 0
                  \/ o.overtimeHours # <<>> /\ overtimeHours < 0
      overtimeRate == hourlyRate * getMultiplier(o)
      overtimePay == overtimeRate * overtimeHours
      regularPay == hourlyRate * 100 * regularHours
  IN IF hasError \/ hourlyRate <= 0
     THEN Results(0, 0, 0, 0, 0, 0, 0)
     ELSE Results(hourlyRate * 100, overtimeRate, overtimeHours, regularHours,
                  overtimePay, regularPay, overtimePay + regularPay)

\* calculate() of the overtime calculator: what it hands to updateResults
overtimeCalculate(o) ==
  LET hourlyRate == ParseOrZero(o.hourlyRate)
      overtimeHours == ParseOrZero(o.overtimeHours)
      regularHours == IF ParseOrZero(o.regularHours) = 0 THEN RegularHoursDefault
                      ELSE o.regularHours[1]
      hasError == \/ o.hourlyRate # <<>> /\ hourlyRate < 0
                  \/ o.overtimeHours # <<>> /\ overtimeHours < 0
      direct == ParseOrZero(o.overtimeRate)
      overtimeRate == IF direct = 0 \/ direct <= 0
                      THEN hourlyRate * getMultiplier(o)
                      ELSE direct * 100
      overtimePay == overtimeRate * overtimeHours
      regularPay == hourlyRate * 100 * regularHours
  IN IF hasError \/ hourlyRate <= 0
     THEN Results(0, 0, 0, 0, 0, 0, 0)
     ELSE Results(hourlyRate * 100, overtimeRate, overtimeHours, regularHours,
                  overtimePay, regularPay, overtimePay + regularPay)

\* the page as initOvertimeCalculator leaves it, and as reset() leaves it:
\* empty fields, multiplier 1.5, updateResults(0, 0, 0, 40, 0, 0, 0).
\* calculated: the results shown come from calculate() on the fields as they are
IdleOvertime ==
  [hourlyRate |-> <<>>, overtimeHours |-> <<>>, regularHours |-> <<>>,
   overtimeRate |-> <<>>, multiplierSelect |-> "1.5", customMultiplier |-> <<>>,
   results |-> Results(0, 0, 0, RegularHoursDefault, 0, 0, 0),
   calculated |-> FALSE]

-----------------------------------------------------------------------------
(* Idle values of the variables a specification does not use *)

IdlePeople == <<[id |-> 0, name |-> "Person 1"], [id |-> 1, name |-> "Person 2"]>>
IdleRestaurant ==
  [items |-> <<>>, taxTipEnabled |-> FALSE, taxTipAmount |-> 0,
   taxTipMethod |-> "proportional", payers |-> EmptyMap]
IdleGroupExpense == [items |-> <<>>]
IdleTrip == [lodgingItems |-> <<>>, sharedItems |-> <<>>]
IdleCalc == [done |-> FALSE, runs |-> 0, active |-> FALSE, owedCents |-> EmptyMap, paidCents |-> EmptyMap,
             people |-> <<>>, settlements |-> <<>>]
IdleDist == [totalCents |-> 0, participantIds |-> <<>>, done |-> FALSE, shares |-> EmptyMap]
IdleSettle == [owedCents |-> EmptyMap, paidCents |-> EmptyMap, done |-> FALSE,
               people |-> <<>>, settlements |-> <<>>]
\* the counters as the page sets them up
IdleNextIds ==
  [nextPersonId |-> 2, nextItemId |-> 1, nextGroupExpenseItemId |-> 1,
   nextLodgingItemId |-> 0, nextSharedItemId |-> 0]

\* the counters of a page whose people and items were added one after the other
CountersOfState ==
  LET AtLeast(a, b) == IF a < b THEN b ELSE a
  IN [nextPersonId |-> AtLeast(Len(people), 2),
      nextItemId |-> AtLeast(Len(restaurant.items), 1),
      nextGroupExpenseItemId |-> AtLeast(Len(groupExpense.items), 1),
      nextLodgingItemId |-> Len(trip.lodgingItems),
      nextSharedItemId |-> Len(trip.sharedItems)]

IdleEven == [billTotal |-> <<>>, numPeople |-> <<>>, resultValue |-> formatCurrency(0)]

-----------------------------------------------------------------------------
(* Specification SpecDist: distributeCentsEvenly called on its own *)

InitDist ==
  /\ nextIds = IdleNextIds
  /\ people = IdlePeople /\ scenario = "restaurant"
  /\ restaurant = IdleRestaurant /\ groupExpense = IdleGroupExpense /\ trip = IdleTrip
  /\ calc = IdleCalc /\ settle = IdleSettle /\ even = IdleEven /\ overtime = IdleOvertime
  /\ \E t \in MinTotalCents..MaxTotalCents, ids \in DistinctSeqs(0..(MaxPeople - 1)) :
        dist = [totalCents |-> t, participantIds |-> ids, done |-> FALSE, shares |-> EmptyMap]

CallDistribute ==
  /\ ~dist.done
  /\ dist' = [dist EXCEPT !.done = TRUE,
                          !.shares = distributeCentsEvenly(dist.totalCents, dist.participantIds)]
  /\ UNCHANGED <<people, scenario, restaurant, groupExpense, trip, nextIds, calc, settle, even, overtime>>

NextDist == CallDistribute

SpecDist == InitDist /\ [][NextDist]_vars

-----------------------------------------------------------------------------
(* Specification SpecSettle: computeSettlement called on its own, for any   *)
(* roster and any owed and paid ledgers                                     *)

\* rosters of n people with ids 0..n-1; each person keeps the default name or
\* has been renamed to TypedName
Rosters ==
  UNION {{[i \in 1..n |-> [id |-> i - 1,
                            name |-> IF i \in renamed THEN TypedName ELSE PersonName(i)]] :
            renamed \in SUBSET (1..n)} : n \in 1..MaxPeople}

RosterIds(ps) == {ps[i].id : i \in 1..Len(ps)}

InitSettle ==
  /\ scenario = "restaurant"
  /\ restaurant = IdleRestaurant /\ groupExpense = IdleGroupExpense /\ trip = IdleTrip
  /\ calc = IdleCalc /\ dist = IdleDist /\ even = IdleEven /\ overtime = IdleOvertime
  /\ people \in Rosters
  /\ \E owed \in [RosterIds(people) -> LedgerValues],
        paid \in [RosterIds(people) -> LedgerValues] :
        settle = [owedCents |-> owed, paidCents |-> paid, done |-> FALSE,
                  people |-> <<>>, settlements |-> <<>>]
  /\ nextIds = CountersOfState

CallComputeSettlement ==
  /\ ~settle.done
  /\ LET r == computeSettlement(settle.owedCents, settle.paidCents)
     IN settle' = [settle EXCEPT !.done = TRUE, !.people = r.people,
                                 !.settlements = r.settlements]
  /\ UNCHANGED <<people, scenario, restaurant, groupExpense, trip, nextIds, calc, dist, even, overtime>>

NextSettle == CallComputeSettlement

SpecSettle == InitSettle /\ [][NextSettle]_vars

-----------------------------------------------------------------------------
(* Specification SpecLoop: computeSettlement followed iteration by iteration *)
(* through its while loop                                                    *)

MaxLoopPeople == 4    \* largest roster whose settlement is followed step by step

\* rosters of n people with ids 0..n-1 and the names addPerson gives
LoopRosters ==
  {[i \in 1..n |-> [id |-> i - 1, name |-> PersonName(i)]] : n \in 1..MaxLoopPeople}

\* settle.pc is the position in computeSettlement: "start" before the call,
\* "loop" at the test of the while loop, "done" after the return
InitLoop ==
  /\ scenario = "restaurant"
  /\ restaurant = IdleRestaurant /\ groupExpense = IdleGroupExpense /\ trip = IdleTrip
  /\ calc = IdleCalc /\ dist = IdleDist /\ even = IdleEven /\ overtime = IdleOvertime
  /\ people \in LoopRosters
  /\ \E owed \in [RosterIds(people) -> LedgerValues],
        paid \in [RosterIds(people) -> LedgerValues] :
        settle = [owedCents |-> owed, paidCents |-> paid, done |-> FALSE,
                  people |-> <<>>, settlements |-> <<>>,
                  debtors |-> <<>>, creditors |-> <<>>, pc |-> "start"]
  /\ nextIds = CountersOfState

\* Variant of the body of the loop: a creditor paid in full stays in its queue
LoopStep_creditorKept(debtors, creditors, settlements) ==
  LET debtor == debtors[1]
      creditor == creditors[1]
      paymentCents == Min(debtor.amountCents, creditor.amountCents)
      dLeft == debtor.amountCents - paymentCents
      cLeft == creditor.amountCents - paymentCents
  IN [settlements |-> IF paymentCents > 0
                      THEN Append(settlements, [from |-> debtor.name, to |-> creditor.name,
                                                amountCents |-> paymentCents])
                      ELSE settlements,
      debtors |-> IF dLeft = 0 THEN Tail(debtors)
                               ELSE [debtors EXCEPT ![1].amountCents = dLeft],
      creditors |-> [creditors EXCEPT ![1].amountCents = cLeft]]

\* the body of the while loop, run once
LoopStep(debtors, creditors, settlements) ==
  LET debtor == debtors[1]
      creditor == creditors[1]
      paymentCents == Min(debtor.amountCents, creditor.amountCents)
      dLeft == debtor.amountCents - paymentCents
      cLeft == creditor.amountCents - paymentCents
  IN [settlements |-> IF paymentCents > 0
                      THEN Append(settlements, [from |-> debtor.name, to |-> creditor.name,
                                                amountCents |-> paymentCents])
                      ELSE settlements,
      debtors |-> IF dLeft = 0 THEN Tail(debtors)
                               ELSE [debtors EXCEPT ![1].amountCents = dLeft],
      creditors |-> IF cLeft = 0 THEN Tail(creditors)
                                 ELSE [creditors EXCEPT ![1].amountCents = cLeft]]

\* computeSettlement up to the first test of the while loop
EnterSettlement ==
  /\ settle.pc = "start"
  /\ \E ps \in {CorrectNets(NetPeople(settle.owedCents, settle.paidCents))} :
       \E cs \in {Creditors(ps)}, ds \in {Debtors(ps)} :
         \E creditors \in {SortDescBy(cs, [i \in 1..Len(cs) |-> cs[i].amountCents])},
            debtors \in {SortDescBy(ds, [i \in 1..Len(ds) |-> ds[i].amountCents])} :
           settle' = [settle EXCEPT !.people = ps, !.creditors = creditors,
                                    !.debtors = debtors, !.pc = "loop"]
  /\ UNCHANGED <<people, scenario, restaurant, groupExpense, trip, nextIds, calc, dist, even, overtime>>

\* while (debtors.length > 0 && creditors.length > 0) { ... }: one iteration
LoopIteration ==
  /\ settle.pc = "loop"
  /\ Len(settle.debtors) > 0 /\ Len(settle.creditors) > 0
  /\ LET r == LoopStep(settle.debtors, settle.creditors, settle.settlements)
     IN settle' = [settle EXCEPT !.debtors = r.debtors, !.creditors = r.creditors,
                                 !.settlements = r.settlements]
  /\ UNCHANGED <<people, scenario, restaurant, groupExpense, trip, nextIds, calc, dist, even, overtime>>

\* the test of the while loop fails: return { people, settlements }
LoopExit ==
  /\ settle.pc = "loop"
  /\ ~(Len(settle.debtors) > 0 /\ Len(settle.creditors) > 0)
  /\ settle' = [settle EXCEPT !.pc = "done", !.done = TRUE]
  /\ UNCHANGED <<people, scenario, restaurant, groupExpense, trip, nextIds, calc, dist, even, overtime>>

NextLoop == EnterSettlement \/ LoopIteration \/ LoopExit

SpecLoop == InitLoop /\ [][NextLoop]_vars

\* computeSettlement runs to completion once it is called
SpecLoopFair == SpecLoop /\ WF_vars(NextLoop)

-----------------------------------------------------------------------------
(* calculate *)

\* Variant: computePaid writes the even split it falls back to into
\* state.restaurant.payers
calculate_payersFilled ==
  /\ calc.runs < MaxRuns
  /\ \E owedCents \in {OwedOfScenario}, paidCents \in {computePaid} :
    \E r \in {computeSettlement(owedCents, paidCents)} :
      LET totalOwed == SumMap(owedCents)
      IN /\ calc' = [done |-> TRUE, runs |-> calc.runs + 1,
                     active |-> IF totalOwed = 0 THEN FALSE ELSE TRUE,
                     owedCents |-> owedCents, paidCents |-> paidCents,
                     people |-> r.people, settlements |-> r.settlements]
         /\ restaurant' = IF scenario = "restaurant"
                          THEN [restaurant EXCEPT !.payers =
                                  [pid \in DOMAIN @ |-> paidCents[pid] * 10]]
                          ELSE restaurant
         /\ UNCHANGED <<people, scenario, groupExpense, trip, nextIds, dist, settle, even, overtime>>

\* calc.runs counts the runs of calculate() since the page was set up
calculate ==
  /\ calc.runs < MaxRuns
  /\ \E owedCents \in {OwedOfScenario}, paidCents \in {computePaid} :
    \E r \in {computeSettlement(owedCents, paidCents)} :
      LET totalOwed == SumMap(owedCents)
      IN /\ calc' = [done |-> TRUE, runs |-> calc.runs + 1,
                     active |-> IF totalOwed = 0 THEN FALSE ELSE TRUE,
                     owedCents |-> owedCents, paidCents |-> paidCents,
                     people |-> r.people, settlements |-> r.settlements]
         /\ UNCHANGED <<people, scenario, restaurant, groupExpense, trip, nextIds, dist, settle, even, overtime>>

-----------------------------------------------------------------------------
(* Specification SpecCalc: calculate() on any scenario state of a bounded    *)
(* family of states the page can be brought to                              *)

\* rosters of n people with ids 0..n-1 and the names addPerson gives
DefaultRosters ==
  {[i \in 1..n |-> [id |-> i - 1, name |-> PersonName(i)]] : n \in 1..MaxPeople}

\* payer maps over the ids of S: any checked subset, any typed amounts
PayerMaps(S) == UNION {[T -> PayerAmountValues] : T \in SUBSET S}

\* the payers a new item gets: { [firstPersonId]: 0 }
DefaultPayers == (people[1].id :> 0)

\* lists of at most MaxItems items: the first one edited in any way, the
\* others as add*Item made them (everybody participates, the first person
\* pays) with an amount typed
ItemLists(First, Fresh) ==
  {<<>>} \cup {<<f>> : f \in First}
         \cup UNION {{<<f>> \o rest : f \in First, rest \in [1..k -> Fresh]} :
                       k \in 1..(MaxItems - 1)}

WithIds(items) == [i \in 1..Len(items) |-> [items[i] EXCEPT !.id = i - 1]]

InitCalc ==
  /\ calc = IdleCalc /\ dist = IdleDist /\ settle = IdleSettle /\ even = IdleEven /\ overtime = IdleOvertime
  /\ people \in DefaultRosters
  /\ scenario \in {"restaurant", "group-expense", "trip"}
  /\ LET ids == Range(PeopleIds)
         anyRestaurant == [id : {0}, amount : AmountValues, qty : QtyValues,
                           participants : DistinctSeqs(ids)]
         newRestaurant == [id : {0}, amount : AmountValues \ {0}, qty : {1},
                           participants : {PeopleIds}]
         anyGroup == [id : {0}, amount : AmountValues, qty : QtyValues,
                      participants : DistinctSeqs(ids), payers : PayerMaps(ids)]
         newGroup == [id : {0}, amount : AmountValues \ {0}, qty : {1},
                      participants : {PeopleIds}, payers : {DefaultPayers}]
         anyTrip == [id : {0}, amount : AmountValues,
                     participants : DistinctSeqs(ids), payers : PayerMaps(ids)]
         newTrip == [id : {0}, amount : AmountValues \ {0},
                     participants : {PeopleIds}, payers : {DefaultPayers}]
     IN \/ /\ scenario = "restaurant"
           /\ \E items \in ItemLists(anyRestaurant, newRestaurant),
                 on \in BOOLEAN, tt \in TaxTipValues,
                 method \in {"proportional", "equal"}, payers \in PayerMaps(ids) :
                 restaurant = [items |-> WithIds(items), taxTipEnabled |-> on,
                               taxTipAmount |-> tt, taxTipMethod |-> method,
                               payers |-> payers]
           /\ groupExpense = IdleGroupExpense /\ trip = IdleTrip
        \/ /\ scenario = "group-expense"
           /\ \E items \in ItemLists(anyGroup, newGroup) :
                 groupExpense = [items |-> WithIds(items)]
           /\ restaurant = IdleRestaurant /\ trip = IdleTrip
        \/ /\ scenario = "trip"
           /\ \E lodging \in ItemLists(newTrip, newTrip),
                 shared \in ItemLists(anyTrip, newTrip) :
                 trip = [lodgingItems |-> WithIds(lodging), sharedItems |-> WithIds(shared)]
           /\ restaurant = IdleRestaurant /\ groupExpense = IdleGroupExpense
  /\ nextIds = CountersOfState

NextCalc == calculate

SpecCalc == InitCalc /\ [][NextCalc]_vars

-----------------------------------------------------------------------------
(* Specification SpecTaxTip: calculate() on restaurant bills where every     *)
(* item is one person's own, so that the subtotals are the item costs        *)

\* item amounts typed, in mills; 0 stands for a person without an item
OwnItemValues == {0, 1000, 29000, 71000}

\* tax/tip amounts typed, in mills
OwnTaxTipValues == {0, 30, 1000}

\* the items of the people who have one, in roster order
OwnItems(amounts) ==
  LET having == SelectSeq([i \in 1..Len(people) |-> i], LAMBDA i : amounts[i] # 0)
  IN [k \in 1..Len(having) |->
        [id |-> k - 1, amount |-> amounts[having[k]], qty |-> 1,
         participants |-> <<people[having[k]].id>>]]

InitTaxTip ==
  /\ calc = IdleCalc /\ dist = IdleDist /\ settle = IdleSettle /\ even = IdleEven /\ overtime = IdleOvertime
  /\ people \in DefaultRosters
  /\ scenario = "restaurant"
  /\ groupExpense = IdleGroupExpense /\ trip = IdleTrip
  /\ \E amounts \in [1..Len(people) -> OwnItemValues],
        on \in BOOLEAN, tt \in OwnTaxTipValues, method \in {"proportional", "equal"} :
        restaurant = [items |-> OwnItems(amounts), taxTipEnabled |-> on,
                      taxTipAmount |-> tt, taxTipMethod |-> method,
                      payers |-> DefaultPayers]
  /\ nextIds = CountersOfState

NextTaxTip == calculate

SpecTaxTip == InitTaxTip /\ [][NextTaxTip]_vars

-----------------------------------------------------------------------------
(* The fair-split page: its state after construction and its handlers       *)

\* state.restaurant, state.groupExpense and state.trip as the page sets them
\* up and as resetFairSplit restores them (item names are left out)
InitialRestaurant ==
  [items |-> <<[id |-> 0, amount |-> 0, qty |-> 1, participants |-> <<0, 1>>]>>,
   taxTipEnabled |-> FALSE, taxTipAmount |-> 0, taxTipMethod |-> "proportional",
   payers |-> (0 :> 0)]

InitialGroupExpense ==
  [items |-> <<[id |-> 0, amount |-> 0, qty |-> 1, participants |-> <<0, 1>>,
                payers |-> (0 :> 0)]>>]

InitialTrip == [lodgingItems |-> <<>>, sharedItems |-> <<>>]

InitPage ==
  /\ people = IdlePeople /\ scenario = "restaurant"
  /\ restaurant = InitialRestaurant /\ groupExpense = InitialGroupExpense
  /\ trip = InitialTrip /\ nextIds = IdleNextIds
  /\ calc = IdleCalc /\ dist = IdleDist /\ settle = IdleSettle /\ even = IdleEven /\ overtime = IdleOvertime

\* items.forEach(item => item.participants.push(id))
WithParticipant(items, id) ==
  [k \in 1..Len(items) |-> [items[k] EXCEPT !.participants = Append(@, id)]]

\* items.forEach(item => item.participants = item.participants.filter(pid => pid !== id))
WithoutParticipant(items, id) ==
  [k \in 1..Len(items) |->
     [items[k] EXCEPT !.participants = SelectSeq(@, LAMBDA pid : pid # id)]]

\* delete payers[id]
WithoutKey(payers, id) == [pid \in DOMAIN payers \ {id} |-> payers[pid]]

\* payers[id] = amount
WithKey(payers, id, amount) ==
  [pid \in DOMAIN payers \cup {id} |-> IF pid = id THEN amount ELSE payers[pid]]

\* items.forEach(item => delete item.payers[id])
WithoutPayer(items, id) ==
  [k \in 1..Len(items) |-> [items[k] EXCEPT !.payers = WithoutKey(@, id)]]

\* items.filter(i => i.id !== id)
WithoutItem(items, id) == SelectSeq(items, LAMBDA item : item.id # id)

\* the ids of the items of a list
ItemIds(items) == {items[k].id : k \in 1..Len(items)}

\* items with the item of the given id replaced (items.find(i => i.id === id))
WithItem(items, id, new) ==
  [k \in 1..Len(items) |-> IF items[k].id = id THEN new ELSE items[k]]

\* the item of the given id
ItemOf(items, id) == items[CHOOSE k \in 1..Len(items) : items[k].id = id]

\* the participant checkbox handlers: a checked box pushes the person unless
\* already there, an unchecked one filters the person out; the box shows
\* whether the person is in the list, so a change event flips membership
ParticipantsChanged(participants, personId) ==
  IF personId \in Range(participants)
  THEN SelectSeq(participants, LAMBDA pid : pid # personId)
  ELSE Append(participants, personId)

\* the payer checkbox handlers: checked sets payers[personId] = 0, unchecked
\* deletes the key
PayersChanged(payers, personId) ==
  IF personId \in DOMAIN payers
  THEN WithoutKey(payers, personId)
  ELSE WithKey(payers, personId, 0)

\* the number of items on the page, all four lists together
PageItems ==
  Len(restaurant.items) + Len(groupExpense.items)
    + Len(trip.lodgingItems) + Len(trip.sharedItems)

\* resultsEl.classList.remove('active')
ResultsHidden == [calc EXCEPT !.active = FALSE]

addPerson ==
  /\ Len(people) < MaxPagePeople /\ nextIds.nextPersonId <= MaxPersonId
  /\ LET id == nextIds.nextPersonId
     IN /\ nextIds' = [nextIds EXCEPT !.nextPersonId = id + 1]
        /\ people' = Append(people, [id |-> id, name |-> PersonName(Len(people) + 1)])
        /\ restaurant' = [restaurant EXCEPT !.items = WithParticipant(@, id)]
        /\ groupExpense' = [groupExpense EXCEPT !.items = WithParticipant(@, id)]
        /\ trip' = [trip EXCEPT !.lodgingItems = WithParticipant(@, id),
                                !.sharedItems = WithParticipant(@, id)]
  /\ UNCHANGED <<scenario, calc, dist, settle, even, overtime>>

\* Variant: the last person can be removed as well
removePerson_noGuard(id) ==
  /\ people' = SelectSeq(people, LAMBDA p : p.id # id)
  /\ restaurant' = [restaurant EXCEPT !.items = WithoutParticipant(@, id),
                                      !.payers = WithoutKey(@, id)]
  /\ groupExpense' = [groupExpense EXCEPT
                        !.items = WithoutPayer(WithoutParticipant(@, id), id)]
  /\ trip' = [trip EXCEPT
                !.lodgingItems = WithoutPayer(WithoutParticipant(@, id), id),
                !.sharedItems = WithoutPayer(WithoutParticipant(@, id), id)]
  /\ UNCHANGED <<scenario, nextIds, calc, dist, settle, even, overtime>>

\* Variant: the person leaves the roster and the participant lists, the payer
\* maps are left as they are
removePerson_payersKept(id) ==
  IF Len(people) <= 1
  THEN UNCHANGED vars
  ELSE /\ people' = SelectSeq(people, LAMBDA p : p.id # id)
       /\ restaurant' = [restaurant EXCEPT !.items = WithoutParticipant(@, id)]
       /\ groupExpense' = [groupExpense EXCEPT !.items = WithoutParticipant(@, id)]
       /\ trip' = [trip EXCEPT !.lodgingItems = WithoutParticipant(@, id),
                               !.sharedItems = WithoutParticipant(@, id)]
       /\ UNCHANGED <<scenario, nextIds, calc, dist, settle, even, overtime>>

\* removePerson(id), for the remove button of a person of the roster
removePerson(id) ==
  IF Len(people) <= 1
  THEN UNCHANGED vars
  ELSE /\ people' = SelectSeq(people, LAMBDA p : p.id # id)
       /\ restaurant' = [restaurant EXCEPT !.items = WithoutParticipant(@, id),
                                           !.payers = WithoutKey(@, id)]
       /\ groupExpense' = [groupExpense EXCEPT
                             !.items = WithoutPayer(WithoutParticipant(@, id), id)]
       /\ trip' = [trip EXCEPT
                     !.lodgingItems = WithoutPayer(WithoutParticipant(@, id), id),
                     !.sharedItems = WithoutPayer(WithoutParticipant(@, id), id)]
       /\ UNCHANGED <<scenario, nextIds, calc, dist, settle, even, overtime>>

\* a click on the remove button of any person shown
RemovePersonClick == \E id \in Range(PeopleIds) : removePerson(id)

addRestaurantItem ==
  /\ PageItems < MaxPageItems /\ nextIds.nextItemId <= MaxItemId
  /\ nextIds' = [nextIds EXCEPT !.nextItemId = @ + 1]
  /\ restaurant' = [restaurant EXCEPT !.items =
        Append(@, [id |-> nextIds.nextItemId, amount |-> 0, qty |-> 1,
                   participants |-> PeopleIds])]
  /\ UNCHANGED <<people, scenario, groupExpense, trip, calc, dist, settle, even, overtime>>

addGroupExpenseItem ==
  /\ PageItems < MaxPageItems
  /\ nextIds.nextGroupExpenseItemId <= MaxItemId
  /\ nextIds' = [nextIds EXCEPT !.nextGroupExpenseItemId = @ + 1]
  /\ groupExpense' = [groupExpense EXCEPT !.items =
        Append(@, [id |-> nextIds.nextGroupExpenseItemId, amount |-> 0, qty |-> 1,
                   participants |-> PeopleIds, payers |-> DefaultPayers])]
  /\ UNCHANGED <<people, scenario, restaurant, trip, calc, dist, settle, even, overtime>>

addLodgingItem ==
  /\ PageItems < MaxPageItems
  /\ nextIds.nextLodgingItemId < MaxItemId
  /\ nextIds' = [nextIds EXCEPT !.nextLodgingItemId = @ + 1]
  /\ trip' = [trip EXCEPT !.lodgingItems =
        Append(@, [id |-> nextIds.nextLodgingItemId, amount |-> 0,
                   participants |-> PeopleIds, payers |-> DefaultPayers])]
  /\ UNCHANGED <<people, scenario, restaurant, groupExpense, calc, dist, settle, even, overtime>>

addSharedItem ==
  /\ PageItems < MaxPageItems
  /\ nextIds.nextSharedItemId < MaxItemId
  /\ nextIds' = [nextIds EXCEPT !.nextSharedItemId = @ + 1]
  /\ trip' = [trip EXCEPT !.sharedItems =
        Append(@, [id |-> nextIds.nextSharedItemId, amount |-> 0,
                   participants |-> PeopleIds, payers |-> DefaultPayers])]
  /\ UNCHANGED <<people, scenario, restaurant, groupExpense, calc, dist, settle, even, overtime>>

\* the remove buttons of the four item lists
RemoveRestaurantItemClick ==
  /\ \E id \in ItemIds(restaurant.items) :
       restaurant' = [restaurant EXCEPT !.items = WithoutItem(@, id)]
  /\ UNCHANGED <<people, scenario, groupExpense, trip, nextIds, calc, dist, settle, even, overtime>>

RemoveGroupExpenseItemClick ==
  /\ \E id \in ItemIds(groupExpense.items) :
       groupExpense' = [groupExpense EXCEPT !.items = WithoutItem(@, id)]
  /\ UNCHANGED <<people, scenario, restaurant, trip, nextIds, calc, dist, settle, even, overtime>>

RemoveLodgingItemClick ==
  /\ \E id \in ItemIds(trip.lodgingItems) :
       trip' = [trip EXCEPT !.lodgingItems = WithoutItem(@, id)]
  /\ UNCHANGED <<people, scenario, restaurant, groupExpense, nextIds, calc, dist, settle, even, overtime>>

RemoveSharedItemClick ==
  /\ \E id \in ItemIds(trip.sharedItems) :
       trip' = [trip EXCEPT !.sharedItems = WithoutItem(@, id)]
  /\ UNCHANGED <<people, scenario, restaurant, groupExpense, nextIds, calc, dist, settle, even, overtime>>

\* the participant checkboxes of the four item lists
RestaurantParticipantChange ==
  /\ \E id \in ItemIds(restaurant.items), personId \in Range(PeopleIds) :
       restaurant' = [restaurant EXCEPT !.items =
         WithItem(@, id, [ItemOf(@, id) EXCEPT
                            !.participants = ParticipantsChanged(@, personId)])]
  /\ UNCHANGED <<people, scenario, groupExpense, trip, nextIds, calc, dist, settle, even, overtime>>

GroupExpenseParticipantChange ==
  /\ \E id \in ItemIds(groupExpense.items), personId \in Range(PeopleIds) :
       groupExpense' = [groupExpense EXCEPT !.items =
         WithItem(@, id, [ItemOf(@, id) EXCEPT
                            !.participants = ParticipantsChanged(@, personId)])]
  /\ UNCHANGED <<people, scenario, restaurant, trip, nextIds, calc, dist, settle, even, overtime>>

LodgingParticipantChange ==
  /\ \E id \in ItemIds(trip.lodgingItems), personId \in Range(PeopleIds) :
       trip' = [trip EXCEPT !.lodgingItems =
         WithItem(@, id, [ItemOf(@, id) EXCEPT
                            !.participants = ParticipantsChanged(@, personId)])]
  /\ UNCHANGED <<people, scenario, restaurant, groupExpense, nextIds, calc, dist, settle, even, overtime>>

SharedParticipantChange ==
  /\ \E id \in ItemIds(trip.sharedItems), personId \in Range(PeopleIds) :
       trip' = [trip EXCEPT !.sharedItems =
         WithItem(@, id, [ItemOf(@, id) EXCEPT
                            !.participants = ParticipantsChanged(@, personId)])]
  /\ UNCHANGED <<people, scenario, restaurant, groupExpense, nextIds, calc, dist, settle, even, overtime>>

\* the payer checkboxes: renderPayerBubbles for the restaurant bill
RestaurantPayerChange ==
  /\ \E personId \in Range(PeopleIds) :
       restaurant' = [restaurant EXCEPT !.payers = PayersChanged(@, personId)]
  /\ UNCHANGED <<people, scenario, groupExpense, trip, nextIds, calc, dist, settle, even, overtime>>

\* the payer checkboxes: renderItemPayerBubbles for a group expense, lodging
\* or shared item
ItemPayerChange ==
  /\ \E personId \in Range(PeopleIds) :
       \/ /\ \E id \in ItemIds(groupExpense.items) :
               groupExpense' = [groupExpense EXCEPT !.items =
                 WithItem(@, id, [ItemOf(@, id) EXCEPT
                                    !.payers = PayersChanged(@, personId)])]
          /\ UNCHANGED trip
       \/ /\ \E id \in ItemIds(trip.lodgingItems) :
               trip' = [trip EXCEPT !.lodgingItems =
                 WithItem(@, id, [ItemOf(@, id) EXCEPT
                                    !.payers = PayersChanged(@, personId)])]
          /\ UNCHANGED groupExpense
       \/ /\ \E id \in ItemIds(trip.sharedItems) :
               trip' = [trip EXCEPT !.sharedItems =
                 WithItem(@, id, [ItemOf(@, id) EXCEPT
                                    !.payers = PayersChanged(@, personId)])]
          /\ UNCHANGED groupExpense
  /\ UNCHANGED <<people, scenario, restaurant, nextIds, calc, dist, settle, even, overtime>>

\* Variant: the reset also goes back to the scenario the page starts with
resetFairSplit_scenarioReset ==
  /\ people' = IdlePeople
  /\ restaurant' = InitialRestaurant /\ groupExpense' = InitialGroupExpense
  /\ trip' = InitialTrip /\ nextIds' = IdleNextIds
  /\ calc' = ResultsHidden
  /\ scenario' = "restaurant"
  /\ UNCHANGED <<dist, settle, even, overtime>>

resetFairSplit ==
  /\ people' = IdlePeople
  /\ restaurant' = InitialRestaurant /\ groupExpense' = InitialGroupExpense
  /\ trip' = InitialTrip /\ nextIds' = IdleNextIds
  /\ calc' = ResultsHidden
  /\ UNCHANGED <<scenario, dist, settle, even, overtime>>

switchScenario ==
  /\ \E target \in {"restaurant", "group-expense", "trip"} : scenario' = target
  /\ calc' = ResultsHidden
  /\ UNCHANGED <<people, restaurant, groupExpense, trip, nextIds, dist, settle, even, overtime>>

-----------------------------------------------------------------------------
(* Specification SpecRoster: people and items added and removed, participant *)
(* and payer boxes checked and unchecked, reset                              *)

NextRoster ==
  \/ addPerson \/ RemovePersonClick
  \/ addRestaurantItem \/ addGroupExpenseItem \/ addLodgingItem \/ addSharedItem
  \/ RemoveRestaurantItemClick \/ RemoveGroupExpenseItemClick
  \/ RemoveLodgingItemClick \/ RemoveSharedItemClick
  \/ RestaurantParticipantChange \/ GroupExpenseParticipantChange
  \/ LodgingParticipantChange \/ SharedParticipantChange
  \/ RestaurantPayerChange \/ ItemPayerChange
  \/ resetFairSplit \/ switchScenario

SpecRoster == InitPage /\ [][NextRoster]_vars

-----------------------------------------------------------------------------
(* Specification SpecPeople: the people manager alone (add, remove, rename,  *)
(* reset), on a larger roster                                                *)

MaxRosterPeople == 3  \* largest roster of the people manager on its own
MaxRosterId == 4      \* largest person id handed out there

\* what is typed into a person's name field
TypedNames == {"", TypedName}

\* Variant: the new person's id is taken from the length of the roster
AddPersonClick_idFromLength ==
  /\ Len(people) < MaxRosterPeople /\ nextIds.nextPersonId <= MaxRosterId
  /\ LET id == Len(people)
     IN /\ nextIds' = [nextIds EXCEPT !.nextPersonId = @ + 1]
        /\ people' = Append(people, [id |-> id, name |-> PersonName(Len(people) + 1)])
        /\ restaurant' = [restaurant EXCEPT !.items = WithParticipant(@, id)]
        /\ groupExpense' = [groupExpense EXCEPT !.items = WithParticipant(@, id)]
        /\ trip' = [trip EXCEPT !.lodgingItems = WithParticipant(@, id),
                                !.sharedItems = WithParticipant(@, id)]
  /\ UNCHANGED <<scenario, calc, dist, settle, even, overtime>>

\* a click on "add person": addPerson(), here up to MaxRosterPeople people
AddPersonClick ==
  /\ Len(people) < MaxRosterPeople /\ nextIds.nextPersonId <= MaxRosterId
  /\ LET id == nextIds.nextPersonId
     IN /\ nextIds' = [nextIds EXCEPT !.nextPersonId = id + 1]
        /\ people' = Append(people, [id |-> id, name |-> PersonName(Len(people) + 1)])
        /\ restaurant' = [restaurant EXCEPT !.items = WithParticipant(@, id)]
        /\ groupExpense' = [groupExpense EXCEPT !.items = WithParticipant(@, id)]
        /\ trip' = [trip EXCEPT !.lodgingItems = WithParticipant(@, id),
                                !.sharedItems = WithParticipant(@, id)]
  /\ UNCHANGED <<scenario, calc, dist, settle, even, overtime>>

\* 'input' on a person-name-input: person.name = value || 'Unnamed'
PersonNameInput ==
  /\ \E id \in Range(PeopleIds), value \in TypedNames :
       LET first == CHOOSE i \in 1..Len(people) :
                      people[i].id = id /\ \A j \in 1..(i - 1) : people[j].id # id
       IN people' = [people EXCEPT
                       ![first].name = IF value = "" THEN "Unnamed" ELSE value]
  /\ UNCHANGED <<scenario, restaurant, groupExpense, trip, nextIds, calc, dist, settle, even, overtime>>

NextPeople == AddPersonClick \/ RemovePersonClick \/ PersonNameInput \/ resetFairSplit

SpecPeople == InitPage /\ [][NextPeople]_vars

-----------------------------------------------------------------------------
(* Specification SpecInput: amounts, quantities and payer amounts typed into *)
(* the fields of the page                                                    *)

\* what is typed into an amount field: <<>> for text that is not a number,
\* <<x>> for the number x in mills
TypedAmounts == {<<>>, <<0 - 5000>>, <<100000>>}

\* what is typed into a quantity field
TypedQuantities == {<<>>, <<0>>, <<0 - 1>>, <<2>>}

\* what is typed into the amount field of a checked payer, in mills
TypedPayerAmounts == {<<>>, <<0 - 1000>>, <<4000>>}

\* Math.max(1, parseInt(value) || 1)
ParseQty(value) == IF ParseOrZero(value) = 0 \/ ParseOrZero(value) < 1 THEN 1 ELSE value[1]

\* 'input' on an item-amount-input: item.amount = parseFloat(value) || 0
RestaurantAmountInput ==
  /\ \E id \in ItemIds(restaurant.items), value \in TypedAmounts :
       restaurant' = [restaurant EXCEPT !.items =
         WithItem(@, id, [ItemOf(@, id) EXCEPT !.amount = ParseOrZero(value)])]
  /\ UNCHANGED <<people, scenario, groupExpense, trip, nextIds, calc, dist, settle, even, overtime>>

\* 'input' on an item-qty-input
RestaurantQtyInput ==
  /\ \E id \in ItemIds(restaurant.items), value \in TypedQuantities :
       restaurant' = [restaurant EXCEPT !.items =
         WithItem(@, id, [ItemOf(@, id) EXCEPT !.qty = ParseQty(value)])]
  /\ UNCHANGED <<people, scenario, groupExpense, trip, nextIds, calc, dist, settle, even, overtime>>

GroupExpenseAmountInput ==
  /\ \E id \in ItemIds(groupExpense.items), value \in TypedAmounts :
       groupExpense' = [groupExpense EXCEPT !.items =
         WithItem(@, id, [ItemOf(@, id) EXCEPT !.amount = ParseOrZero(value)])]
  /\ UNCHANGED <<people, scenario, restaurant, trip, nextIds, calc, dist, settle, even, overtime>>

GroupExpenseQtyInput ==
  /\ \E id \in ItemIds(groupExpense.items), value \in TypedQuantities :
       groupExpense' = [groupExpense EXCEPT !.items =
         WithItem(@, id, [ItemOf(@, id) EXCEPT !.qty = ParseQty(value)])]
  /\ UNCHANGED <<people, scenario, restaurant, trip, nextIds, calc, dist, settle, even, overtime>>

LodgingAmountInput ==
  /\ \E id \in ItemIds(trip.lodgingItems), value \in TypedAmounts :
       trip' = [trip EXCEPT !.lodgingItems =
         WithItem(@, id, [ItemOf(@, id) EXCEPT !.amount = ParseOrZero(value)])]
  /\ UNCHANGED <<people, scenario, restaurant, groupExpense, nextIds, calc, dist, settle, even, overtime>>

SharedAmountInput ==
  /\ \E id \in ItemIds(trip.sharedItems), value \in TypedAmounts :
       trip' = [trip EXCEPT !.sharedItems =
         WithItem(@, id, [ItemOf(@, id) EXCEPT !.amount = ParseOrZero(value)])]
  /\ UNCHANGED <<people, scenario, restaurant, groupExpense, nextIds, calc, dist, settle, even, overtime>>

\* 'input' on a payer-amount-input of the restaurant bill:
\* payersObj[personId] = parseFloat(value) || 0, typed for a checked payer
RestaurantPayerAmountInput ==
  /\ \E personId \in DOMAIN restaurant.payers, value \in TypedPayerAmounts :
       restaurant' = [restaurant EXCEPT
                       !.payers = WithKey(@, personId, ParseOrZero(value))]
  /\ UNCHANGED <<people, scenario, groupExpense, trip, nextIds, calc, dist, settle, even, overtime>>

\* 'input' on a payer-amount-input of a group expense, lodging or shared item
ItemPayerAmountInput ==
  /\ \E value \in TypedPayerAmounts :
       \/ /\ \E id \in ItemIds(groupExpense.items) :
               \E personId \in DOMAIN ItemOf(groupExpense.items, id).payers :
                 groupExpense' = [groupExpense EXCEPT !.items =
                   WithItem(@, id, [ItemOf(@, id) EXCEPT
                     !.payers = WithKey(@, personId, ParseOrZero(value))])]
          /\ UNCHANGED trip
       \/ /\ \E id \in ItemIds(trip.lodgingItems) :
               \E personId \in DOMAIN ItemOf(trip.lodgingItems, id).payers :
                 trip' = [trip EXCEPT !.lodgingItems =
                   WithItem(@, id, [ItemOf(@, id) EXCEPT
                     !.payers = WithKey(@, personId, ParseOrZero(value))])]
          /\ UNCHANGED groupExpense
       \/ /\ \E id \in ItemIds(trip.sharedItems) :
               \E personId \in DOMAIN ItemOf(trip.sharedItems, id).payers :
                 trip' = [trip EXCEPT !.sharedItems =
                   WithItem(@, id, [ItemOf(@, id) EXCEPT
                     !.payers = WithKey(@, personId, ParseOrZero(value))])]
          /\ UNCHANGED groupExpense
  /\ UNCHANGED <<people, scenario, restaurant, nextIds, calc, dist, settle, even, overtime>>

\* 'change' on the tax/tip toggle
TaxTipToggleChange ==
  /\ restaurant' = [restaurant EXCEPT !.taxTipEnabled = ~@]
  /\ UNCHANGED <<people, scenario, groupExpense, trip, nextIds, calc, dist, settle, even, overtime>>

\* 'input' on the tax/tip amount: taxTipAmount = parseFloat(value) || 0
TaxTipAmountInput ==
  /\ \E value \in TypedAmounts :
       restaurant' = [restaurant EXCEPT !.taxTipAmount = ParseOrZero(value)]
  /\ UNCHANGED <<people, scenario, groupExpense, trip, nextIds, calc, dist, settle, even, overtime>>

NextInput ==
  \/ RestaurantAmountInput \/ RestaurantQtyInput
  \/ GroupExpenseAmountInput \/ GroupExpenseQtyInput
  \/ LodgingAmountInput \/ SharedAmountInput
  \/ RestaurantPayerAmountInput \/ ItemPayerAmountInput
  \/ TaxTipToggleChange \/ TaxTipAmountInput
  \/ RemoveRestaurantItemClick \/ RemoveGroupExpenseItemClick
  \/ addLodgingItem \/ addSharedItem
  \/ switchScenario

SpecInput == InitPage /\ [][NextInput]_vars

-----------------------------------------------------------------------------
(* Specification SpecReset: the page edited, calculated and reset            *)

NextReset ==
  \/ RestaurantAmountInput \/ GroupExpenseAmountInput \/ LodgingAmountInput
  \/ TaxTipToggleChange \/ TaxTipAmountInput
  \/ addPerson \/ RemovePersonClick
  \/ addLodgingItem \/ RemoveGroupExpenseItemClick
  \/ switchScenario
  \/ calculate
  \/ resetFairSplit

SpecReset == InitPage /\ [][NextReset]_vars

-----------------------------------------------------------------------------
(* Specification SpecOvertime: the overtime calculator's fields edited, the  *)
(* multiplier chosen, Calculate and Reset clicked                            *)

HourlyRateFields == {<<>>, <<0>>, <<0 - 2000>>, <<2000>>}
OvertimeHoursFields == {<<>>, <<0 - 5>>, <<10>>}
RegularHoursFields == {<<>>, <<0>>, <<32>>}
OvertimeRateFields == {<<>>, <<0>>, <<0 - 100>>, <<3500>>}
CustomMultiplierFields == {<<>>, <<200>>}
MultiplierOptions == {"1.5", "other"}

InitOvertime ==
  /\ people = IdlePeople /\ scenario = "restaurant"
  /\ restaurant = IdleRestaurant /\ groupExpense = IdleGroupExpense /\ trip = IdleTrip
  /\ calc = IdleCalc /\ dist = IdleDist /\ settle = IdleSettle /\ even = IdleEven
  /\ nextIds = IdleNextIds
  /\ overtime = IdleOvertime

\* the fields after an edit, and the results shown once the 'input' listener
\* ran: calculate() only if the hourly rate field holds something
AfterInput(o) ==
  IF o.hourlyRate # <<>>
  THEN [o EXCEPT !.results = overtimeCalculate(o), !.calculated = TRUE]
  ELSE [o EXCEPT !.calculated = FALSE]

HourlyRateInput ==
  /\ \E value \in HourlyRateFields :
       overtime' = AfterInput([overtime EXCEPT !.hourlyRate = value])
  /\ UNCHANGED <<people, scenario, restaurant, groupExpense, trip, nextIds, calc, dist,
                 settle, even>>

OvertimeHoursInput ==
  /\ \E value \in OvertimeHoursFields :
       overtime' = AfterInput([overtime EXCEPT !.overtimeHours = value])
  /\ UNCHANGED <<people, scenario, restaurant, groupExpense, trip, nextIds, calc, dist,
                 settle, even>>

RegularHoursInput ==
  /\ \E value \in RegularHoursFields :
       overtime' = AfterInput([overtime EXCEPT !.regularHours = value])
  /\ UNCHANGED <<people, scenario, restaurant, groupExpense, trip, nextIds, calc, dist,
                 settle, even>>

OvertimeRateInput ==
  /\ \E value \in OvertimeRateFields :
       overtime' = AfterInput([overtime EXCEPT !.overtimeRate = value])
  /\ UNCHANGED <<people, scenario, restaurant, groupExpense, trip, nextIds, calc, dist,
                 settle, even>>

CustomMultiplierInput ==
  /\ \E value \in CustomMultiplierFields :
       overtime' = AfterInput([overtime EXCEPT !.customMultiplier = value])
  /\ UNCHANGED <<people, scenario, restaurant, groupExpense, trip, nextIds, calc, dist,
                 settle, even>>

\* 'change' on the multiplier select: calculate() only if the hourly rate and
\* the overtime hours fields both hold something
MultiplierChange ==
  /\ \E option \in MultiplierOptions :
       LET o == [overtime EXCEPT !.multiplierSelect = option]
       IN overtime' = IF o.hourlyRate # <<>> /\ o.overtimeHours # <<>>
                      THEN [o EXCEPT !.results = overtimeCalculate(o), !.calculated = TRUE]
                      ELSE [o EXCEPT !.calculated = FALSE]
  /\ UNCHANGED <<people, scenario, restaurant, groupExpense, trip, nextIds, calc, dist,
                 settle, even>>

\* a click on Calculate
CalculateClick ==
  /\ overtime' = [overtime EXCEPT !.results = overtimeCalculate(overtime),
                                  !.calculated = TRUE]
  /\ UNCHANGED <<people, scenario, restaurant, groupExpense, trip, nextIds, calc, dist,
                 settle, even>>

\* reset() of the overtime calculator
overtimeReset ==
  /\ overtime' = IdleOvertime
  /\ UNCHANGED <<people, scenario, restaurant, groupExpense, trip, nextIds, calc, dist,
                 settle, even>>

NextOvertime ==
  \/ HourlyRateInput \/ OvertimeHoursInput \/ RegularHoursInput \/ OvertimeRateInput
  \/ CustomMultiplierInput \/ MultiplierChange \/ CalculateClick \/ overtimeReset

SpecOvertime == InitOvertime /\ [][NextOvertime]_vars

-----------------------------------------------------------------------------
(* Specification SpecEven: the even-split calculator, its two inputs edited  *)
(* in any order and its reset button                                         *)

\* bill totals typed, in mills
BillValues == {0 - 1000, 0, 5, 10, 1000, 10000, 33330, 100000, 100005, 200000}

\* head counts typed
PeopleValues == (0 - 1)..MaxEvenPeople

InitEven ==
  /\ even = IdleEven /\ overtime = IdleOvertime /\ nextIds = IdleNextIds
  /\ people = IdlePeople /\ scenario = "restaurant" /\ restaurant = IdleRestaurant
  /\ groupExpense = IdleGroupExpense /\ trip = IdleTrip
  /\ calc = IdleCalc /\ dist = IdleDist /\ settle = IdleSettle

\* 'input' on the bill total field: the field has its new value, calculate()
BillTotalInput ==
  /\ \E value \in {<<>>} \cup {<<b>> : b \in BillValues} :
       even' = [even EXCEPT !.billTotal = value,
                            !.resultValue = EvenResult(value, even.numPeople)]
  /\ UNCHANGED <<people, scenario, restaurant, groupExpense, trip, nextIds, calc, dist, settle, overtime>>

\* 'input' on the number of people field: the field has its new value, calculate()
NumPeopleInput ==
  /\ \E value \in {<<>>} \cup {<<n>> : n \in PeopleValues} :
       even' = [even EXCEPT !.numPeople = value,
                            !.resultValue = EvenResult(even.billTotal, value)]
  /\ UNCHANGED <<people, scenario, restaurant, groupExpense, trip, nextIds, calc, dist, settle, overtime>>

\* the reset button of the even-split calculator
resetEven ==
  /\ even' = [billTotal |-> <<>>, numPeople |-> <<>>, resultValue |-> formatCurrency(0)]
  /\ UNCHANGED <<people, scenario, restaurant, groupExpense, trip, nextIds, calc, dist, settle, overtime>>

NextEven == BillTotalInput \/ NumPeopleInput \/ resetEven

SpecEven == InitEven /\ [][NextEven]_vars

-----------------------------------------------------------------------------
(* Claims about distributeCentsEvenly, checked under SpecDist *)

\* C6: for a non-negative total and a non-empty list of distinct ids, the
\* result has a share for every participant, every share is a non-negative
\* integer, and the shares sum exactly to the total.
C6_SharesSumToTotal ==
  (dist.done /\ dist.totalCents >= 0 /\ Len(dist.participantIds) > 0) =>
     /\ DOMAIN dist.shares = Range(dist.participantIds)
     /\ \A pid \in DOMAIN dist.shares : dist.shares[pid] \in Nat
     /\ SumMap(dist.shares) = dist.totalCents

C6_Witness ==
  /\ dist.done /\ dist.totalCents = MaxTotalCents /\ Len(dist.participantIds) = MaxPeople
  /\ SumMap(dist.shares) = MaxTotalCents

\* C7: for any total and any non-empty participant list, any two shares of
\* the result differ by at most one cent.
C7_SharesWithinOneCent ==
  (dist.done /\ Len(dist.participantIds) > 0) =>
     \A p \in DOMAIN dist.shares, q \in DOMAIN dist.shares :
        dist.shares[p] - dist.shares[q] <= 1

C7_Witness ==
  /\ dist.done /\ Len(dist.participantIds) = MaxPeople
  /\ \E p \in DOMAIN dist.shares, q \in DOMAIN dist.shares :
        dist.shares[p] - dist.shares[q] = 1

\* C8: with base = floor(total / count) and remainder = total - base * count,
\* exactly the first `remainder` participants of the list get base + 1 and
\* the later ones get base; an empty participant list gives an empty result.
C8_RemainderToFirst ==
  dist.done =>
    LET ids == dist.participantIds
        n == Len(ids)
    IN IF n = 0 THEN dist.shares = EmptyMap
       ELSE LET base == dist.totalCents \div n
                rem == dist.totalCents - base * n
            IN /\ DOMAIN dist.shares = Range(ids)
               /\ \A i \in 1..n :
                     dist.shares[ids[i]] = (IF i <= rem THEN base + 1 ELSE base)

C8_Witness ==
  /\ dist.done /\ dist.participantIds = <<2, 0, 1>> /\ dist.totalCents = 5
  /\ dist.shares[2] = 2 /\ dist.shares[0] = 2 /\ dist.shares[1] = 1

-----------------------------------------------------------------------------
(* Claims about computeSettlement, checked under SpecSettle *)

\* C2: for any owed and paid ledgers, after the rounding correction the
\* netCents of all roster people sum to exactly 0.
C2_NetsSumToZero ==
  settle.done => SumNets(settle.people) = 0

\* the correction had something to correct
C2_Witness ==
  /\ settle.done
  /\ SumNets(NetPeople(settle.owedCents, settle.paidCents)) # 0
  /\ SumNets(settle.people) = 0

\* The transfers name their parties by display name.  A resolution picks, for
\* every name in the roster, a roster position carrying that name.
NameResolutions(ps) ==
  {r \in [{ps[i].name : i \in 1..Len(ps)} -> 1..Len(ps)] :
      \A n \in DOMAIN r : ps[r[n]].name = n}

\* balance of the person at position i once every transfer is applied: the
\* debtor's net goes up by the amount, the creditor's net goes down by it
BalanceAfter(ps, ts, r, i) ==
  ps[i].netCents
    + SumSeq([k \in 1..Len(ts) |-> IF r[ts[k].from] = i THEN ts[k].amountCents ELSE 0])
    - SumSeq([k \in 1..Len(ts) |-> IF r[ts[k].to] = i THEN ts[k].amountCents ELSE 0])

\* C3: applying every returned transfer to the corrected net balances (to the
\* roster person its `from` names and the roster person its `to` names)
\* brings every roster person's balance to exactly zero.
C3_TransfersSettleEveryone ==
  settle.done =>
    \A r \in NameResolutions(settle.people) : \A i \in 1..Len(settle.people) :
       BalanceAfter(settle.people, settle.settlements, r, i) = 0

\* C3 does hold whenever no two roster people share a name
C3_HoldsForDistinctNames ==
  (settle.done /\ Cardinality({people[i].name : i \in 1..Len(people)}) = Len(people)) =>
    \A r \in NameResolutions(settle.people) : \A i \in 1..Len(settle.people) :
       BalanceAfter(settle.people, settle.settlements, r, i) = 0

\* number of roster people whose corrected net balance is non-zero
NonZeroCount(ps) == Cardinality({i \in 1..Len(ps) : ps[i].netCents # 0})

\* C4 (as claimed): the number of transfers is at most (number of roster
\* people with a non-zero corrected net) - 1.
C4_TransferCountBound ==
  settle.done => Len(settle.settlements) <= NonZeroCount(settle.people) - 1

\* C4 (amended): when some corrected net is non-zero the number of transfers
\* is at most (number of people with a non-zero corrected net) - 1; when all
\* corrected nets are zero there is no transfer.
C4_TransferCountBoundAmended ==
  settle.done =>
    IF NonZeroCount(settle.people) = 0
    THEN Len(settle.settlements) = 0
    ELSE Len(settle.settlements) <= NonZeroCount(settle.people) - 1

C4_Witness ==
  /\ settle.done
  /\ NonZeroCount(settle.people) = 3
  /\ Len(settle.settlements) = 2

\* roster positions whose person carries the display name a transfer records
Designated(name) == {i \in 1..Len(people) : people[i].name = name}

\* C21 (as claimed): for every roster, renamed people included, the from and
\* the to of every transfer returned by computeSettlement each designate
\* exactly one roster person.
C21_TransfersDesignateOnePerson ==
  settle.done =>
    \A k \in 1..Len(settle.settlements) :
      /\ Cardinality(Designated(settle.settlements[k].from)) = 1
      /\ Cardinality(Designated(settle.settlements[k].to)) = 1

\* two people renamed to the same name, one owing the other: the transfer
\* reads from "Sam" to "Sam"
C21_AmbiguousTransferReached ==
  /\ settle.done
  /\ Len(people) = 2 /\ people[1].name = TypedName /\ people[2].name = TypedName
  /\ settle.settlements = <<[from |-> TypedName, to |-> TypedName, amountCents |-> 1]>>

\* with pairwise distinct display names every transfer designates one debtor
\* and one creditor
C21_HoldsForDistinctNames ==
  (settle.done /\ Cardinality({people[i].name : i \in 1..Len(people)}) = Len(people)) =>
    \A k \in 1..Len(settle.settlements) :
      /\ Cardinality(Designated(settle.settlements[k].from)) = 1
      /\ Cardinality(Designated(settle.settlements[k].to)) = 1

\* sum of the amounts of the transfers whose from (to) is the given name
SentBy(name) ==
  SumSeq([k \in 1..Len(settle.settlements) |->
            IF settle.settlements[k].from = name
            THEN settle.settlements[k].amountCents ELSE 0])

ReceivedBy(name) ==
  SumSeq([k \in 1..Len(settle.settlements) |->
            IF settle.settlements[k].to = name
            THEN settle.settlements[k].amountCents ELSE 0])

\* the transfers, read as the result gives them (by display name), are well
\* formed against the corrected nets
TransfersWellFormed ==
  /\ \A k \in 1..Len(settle.settlements) :
       LET t == settle.settlements[k]
       IN /\ t.amountCents > 0
          /\ Designated(t.from) # {} /\ Designated(t.to) # {}
          /\ \A i \in Designated(t.from) : settle.people[i].netCents < 0
          /\ \A i \in Designated(t.to) : settle.people[i].netCents > 0
          /\ t.from # t.to
  /\ \A i \in 1..Len(settle.people) :
       /\ settle.people[i].netCents < 0 =>
            SentBy(settle.people[i].name) <= 0 - settle.people[i].netCents
       /\ settle.people[i].netCents > 0 =>
            ReceivedBy(settle.people[i].name) <= settle.people[i].netCents

\* C24 (as claimed): every transfer recorded by computeSettlement has a
\* strictly positive amount, goes from a person whose corrected net is
\* negative to a person whose corrected net is positive, never from a person
\* to themselves, and no debtor sends more than their debt and no creditor
\* receives more than their credit.
C24_TransfersWellFormed ==
  settle.done => TransfersWellFormed

\* two debtors who share a name: the transfers from "Sam" add up to more than
\* the debt of either Sam
C24_OverdrawnNameReached ==
  /\ settle.done
  /\ Len(people) = 3 /\ people[1].name = TypedName /\ people[2].name = TypedName
  /\ settle.people[1].netCents = 0 - 1 /\ settle.people[2].netCents = 0 - 1
  /\ SentBy(TypedName) = 2

\* with pairwise distinct display names the transfers are well formed
C24_HoldsForDistinctNames ==
  (settle.done /\ Cardinality({people[i].name : i \in 1..Len(people)}) = Len(people)) =>
    TransfersWellFormed

\* paid - owed of the i-th roster person, from the ledgers handed in
RawNet(i) == settle.paidCents[people[i].id] - settle.owedCents[people[i].id]

\* the sum of paid - owed over the roster
Imbalance == SumSeq([i \in 1..Len(people) |-> RawNet(i)])

\* the first person in roster order among those with the largest |paid - owed|
CorrectionTarget ==
  CHOOSE i \in 1..Len(people) :
    \A j \in 1..Len(people) :
      \/ Abs(RawNet(j)) < Abs(RawNet(i))
      \/ Abs(RawNet(j)) = Abs(RawNet(i)) /\ i <= j

\* C15: computeSettlement returns one entry per roster person; when the sum of
\* paid - owed is not zero exactly one net is changed, that of the person with
\* the largest |paid - owed| (the first in roster order on ties), which becomes
\* paid - owed minus the imbalance; every other net is paid - owed.
C15_CorrectionTarget ==
  settle.done =>
    /\ Len(settle.people) = Len(people)
    /\ \A i \in 1..Len(people) :
         /\ settle.people[i].id = people[i].id
         /\ settle.people[i].netCents =
              IF Imbalance # 0 /\ i = CorrectionTarget
              THEN RawNet(i) - Imbalance
              ELSE RawNet(i)
    /\ Imbalance # 0 =>
         Cardinality({i \in 1..Len(people) : settle.people[i].netCents # RawNet(i)}) = 1

\* three people, two of them tied for the largest |paid - owed|, an imbalance,
\* and the first of the two corrected
C15_Witness ==
  /\ settle.done /\ Len(people) = 3 /\ Imbalance # 0
  /\ Abs(RawNet(2)) = Abs(RawNet(3)) /\ Abs(RawNet(1)) < Abs(RawNet(2))
  /\ settle.people[2].netCents # RawNet(2)
  /\ settle.people[3].netCents = RawNet(3)

-----------------------------------------------------------------------------
(* Claims about the calculation, checked under SpecCalc *)

\* the expenses of the selected scenario, each as [cents, participants]:
\* cents is round(amount x quantity x 100), written out for an amount in mills
ExpensesOfScenario ==
  LET Priced(items) ==
        [i \in 1..Len(items) |->
           [cents |-> (items[i].amount * items[i].qty + 5) \div 10,
            participants |-> items[i].participants]]
      PricedTrip(items) ==
        [i \in 1..Len(items) |->
           [cents |-> (items[i].amount + 5) \div 10,
            participants |-> items[i].participants]]
  IN IF scenario = "restaurant" THEN Priced(restaurant.items)
     ELSE IF scenario = "group-expense" THEN Priced(groupExpense.items)
     ELSE PricedTrip(trip.lodgingItems) \o PricedTrip(trip.sharedItems)

\* C1 (as claimed): the owed ledger sums to the sum over all expenses of their
\* total cost in cents, for any participant lists, empty ones included.
C1_OwedConservation ==
  calc.done =>
    SumMap(calc.owedCents)
      = SumSeq([i \in 1..Len(ExpensesOfScenario) |-> ExpensesOfScenario[i].cents])

\* the tax/tip the restaurant scenario adds to the owed ledger, in cents:
\* charged when it is enabled with a positive amount and either split equally
\* or split proportionally with a positive item subtotal
TaxTipCharged ==
  LET shared == SumSeq([i \in 1..Len(ExpensesOfScenario) |->
                          IF Len(ExpensesOfScenario[i].participants) = 0 THEN 0
                          ELSE ExpensesOfScenario[i].cents])
  IN IF /\ scenario = "restaurant"
        /\ restaurant.taxTipEnabled /\ restaurant.taxTipAmount > 0
        /\ (restaurant.taxTipMethod = "equal" \/ shared > 0)
     THEN (restaurant.taxTipAmount + 5) \div 10
     ELSE 0

\* C1 (amended): the owed ledger sums to the sum, over the expenses that have
\* at least one participant, of their total cost in cents, plus the tax/tip
\* cents the restaurant scenario charges.
C1_OwedConservationAmended ==
  calc.done =>
    SumMap(calc.owedCents)
      = SumSeq([i \in 1..Len(ExpensesOfScenario) |->
                  IF Len(ExpensesOfScenario[i].participants) = 0 THEN 0
                  ELSE ExpensesOfScenario[i].cents])
        + TaxTipCharged

\* a trip where one expense is split three ways with a cent left over and
\* another, costing something, has nobody checked
C1_Witness ==
  /\ calc.done /\ scenario = "trip" /\ Len(people) = 3
  /\ Len(trip.lodgingItems) = 1 /\ trip.lodgingItems[1].amount = 100000
  /\ Len(trip.sharedItems) = 1 /\ trip.sharedItems[1].amount = 5
  /\ trip.sharedItems[1].participants = <<>>
  /\ SumMap(calc.owedCents) = 10000

ExampleRoster ==
  <<[id |-> 0, name |-> PersonName(1)], [id |-> 1, name |-> PersonName(2)],
    [id |-> 2, name |-> PersonName(3)]>>

ExampleAsGroupExpense ==
  /\ scenario = "group-expense"
  /\ groupExpense.items = <<[id |-> 0, amount |-> 100000, qty |-> 1,
                             participants |-> <<0, 1, 2>>, payers |-> (0 :> 0)]>>

ExampleAsRestaurant ==
  /\ scenario = "restaurant"
  /\ restaurant.items = <<[id |-> 0, amount |-> 100000, qty |-> 1,
                           participants |-> <<0, 1, 2>>]>>
  /\ ~restaurant.taxTipEnabled
  /\ restaurant.payers = (0 :> 0)

ExampleAsTrip ==
  /\ scenario = "trip"
  /\ trip.lodgingItems = <<>>
  /\ trip.sharedItems = <<[id |-> 0, amount |-> 100000,
                           participants |-> <<0, 1, 2>>, payers |-> (0 :> 0)]>>

\* C9: in the worked example the calculation gives owed = {A:3334, B:3333,
\* C:3333}, paid = {A:10000, B:0, C:0}, net = {A:+6666, B:-3333, C:-3333} and
\* the transfers are exactly [B to A 3333, C to A 3333], in that order.
C9_WorkedExample ==
  (/\ calc.done /\ people = ExampleRoster
   /\ (ExampleAsGroupExpense \/ ExampleAsRestaurant \/ ExampleAsTrip)) =>
    /\ calc.owedCents = (0 :> 3334 @@ 1 :> 3333 @@ 2 :> 3333)
    /\ calc.paidCents = (0 :> 10000 @@ 1 :> 0 @@ 2 :> 0)
    /\ [i \in 1..Len(calc.people) |-> calc.people[i].netCents] = <<6666, 0 - 3333, 0 - 3333>>
    /\ calc.settlements =
         <<[from |-> PersonName(2), to |-> PersonName(1), amountCents |-> 3333],
           [from |-> PersonName(3), to |-> PersonName(1), amountCents |-> 3333]>>

C9_Witness ==
  /\ calc.done /\ people = ExampleRoster /\ ExampleAsGroupExpense
  /\ Len(calc.settlements) = 2

-----------------------------------------------------------------------------
(* Claims about the even-split calculator, checked under SpecEven *)

\* a bill of 100.00 is in the bill total field and 3 in the people field
EvenExample == even.billTotal = <<100000>> /\ even.numPeople = <<3>>

\* C10 (as claimed): for bill = 100.00 and people = 3 the displayed per-person
\* share is "$33.34", floor(total cents / people) plus the remainder cent.
C10_ShownShareFloorPlusRemainder ==
  EvenExample => even.resultValue = <<"$", 33, ".", 3, 4>>

\* C10 (amended): for bill = 100.00 and people = 3 the displayed per-person
\* share is "$33.33"; for every positive bill and head count of at least 1
\* the shown share is the cent amount nearest to total / people (a half cent
\* going up), which is never further than half a cent from the quotient.
C10_ShownShareRoundedQuotient ==
  /\ EvenExample => even.resultValue = <<"$", 33, ".", 3, 3>>
  /\ (/\ even.billTotal # <<>> /\ even.numPeople # <<>>
      /\ even.billTotal[1] > 0 /\ even.numPeople[1] >= 1) =>
       \E c \in 0..(even.billTotal[1] \div 10 + 1) :
         /\ (2 * even.billTotal[1]) - (10 * even.numPeople[1]) < 20 * even.numPeople[1] * c
         /\ 20 * even.numPeople[1] * c <= (2 * even.billTotal[1]) + (10 * even.numPeople[1])
         /\ even.resultValue = <<"$", c \div 100, ".", (c % 100) \div 10, c % 10>>

C10_Witness ==
  EvenExample /\ even.resultValue = <<"$", 33, ".", 3, 3>>

-----------------------------------------------------------------------------
(* Claims about the paid ledger, checked under SpecCalc *)

\* the payer allocations of the selected scenario, each as [payers, cents,
\* perItem]: the payer map, the total cost it pays for in cents, and whether
\* it belongs to one item (group expense, trip) or to the whole restaurant bill
\* (all items plus the tax/tip when it is enabled)
AllocationsOfScenario ==
  LET OfItems(items) ==
        [i \in 1..Len(items) |->
           [payers |-> items[i].payers, cents |-> ExpensesOfScenario[i].cents,
            perItem |-> TRUE]]
      billCents ==
        SumSeq([i \in 1..Len(ExpensesOfScenario) |-> ExpensesOfScenario[i].cents])
          + (IF restaurant.taxTipEnabled THEN (restaurant.taxTipAmount + 5) \div 10 ELSE 0)
  IN IF scenario = "restaurant"
     THEN <<[payers |-> restaurant.payers, cents |-> billCents, perItem |-> FALSE]>>
     ELSE IF scenario = "group-expense" THEN OfItems(groupExpense.items)
     ELSE OfItems(trip.lodgingItems \o trip.sharedItems)

\* the sum of the amounts typed for the payers of one allocation, in mills
TotalSpecified(a) == SumMap(a.payers)

\* every allocation of the scenario has typed amounts that sum to more than zero
AllExplicit ==
  \A k \in 1..Len(AllocationsOfScenario) : TotalSpecified(AllocationsOfScenario[k]) > 0

\* C11 (as claimed): an expense whose typed payer amounts sum to more than zero
\* credits each listed payer round(typed amount x 100) cents, whatever the
\* expense costs, a cost of zero included.
C11_ExplicitAmountsCredited ==
  (calc.done /\ AllExplicit) =>
    \A i \in 1..Len(people) :
      calc.paidCents[people[i].id] =
        SumSeq([k \in 1..Len(AllocationsOfScenario) |->
                  LET a == AllocationsOfScenario[k]
                  IN IF people[i].id \in DOMAIN a.payers
                     THEN (a.payers[people[i].id] + 5) \div 10 ELSE 0])

\* C11 (amended): the restaurant bill, and every group or trip expense whose
\* total cost is not zero, credits each listed payer round(typed amount x 100)
\* cents when the typed amounts sum to more than zero; a group or trip expense
\* whose total cost is zero credits nobody.
C11_ExplicitAmountsCreditedAmended ==
  (calc.done /\ AllExplicit) =>
    \A i \in 1..Len(people) :
      calc.paidCents[people[i].id] =
        SumSeq([k \in 1..Len(AllocationsOfScenario) |->
                  LET a == AllocationsOfScenario[k]
                  IN IF /\ people[i].id \in DOMAIN a.payers
                        /\ (a.cents # 0 \/ ~a.perItem)
                     THEN (a.payers[people[i].id] + 5) \div 10 ELSE 0])

\* a group expense of one cent for which two payers typed 4.00 each
C11_Witness ==
  /\ calc.done /\ scenario = "group-expense" /\ Len(groupExpense.items) = 1
  /\ groupExpense.items[1].amount = 5
  /\ groupExpense.items[1].payers = (0 :> 4000 @@ 1 :> 4000)
  /\ calc.paidCents[0] = 400 /\ calc.paidCents[1] = 400

\* every allocation of the scenario has at least one payer and no typed amount
AllUntyped ==
  \A k \in 1..Len(AllocationsOfScenario) :
    /\ DOMAIN AllocationsOfScenario[k].payers # {}
    /\ \A pid \in DOMAIN AllocationsOfScenario[k].payers :
         AllocationsOfScenario[k].payers[pid] = 0

\* C12: an expense whose selected payers all have amount zero credits its
\* total cost split among the selected payers: the credits sum exactly to the
\* cost and every selected payer gets the floor of the even share or one cent
\* more, nobody else gets anything.
C12_EvenSplitFallback ==
  (calc.done /\ AllUntyped) =>
    /\ SumMap(calc.paidCents)
         = SumSeq([k \in 1..Len(AllocationsOfScenario) |-> AllocationsOfScenario[k].cents])
    /\ \A i \in 1..Len(people) :
         LET Low(k) ==
               LET a == AllocationsOfScenario[k]
               IN IF people[i].id \in DOMAIN a.payers
                  THEN a.cents \div Cardinality(DOMAIN a.payers) ELSE 0
             High(k) ==
               LET a == AllocationsOfScenario[k]
               IN IF people[i].id \in DOMAIN a.payers
                  THEN (a.cents + Cardinality(DOMAIN a.payers) - 1)
                         \div Cardinality(DOMAIN a.payers)
                  ELSE 0
         IN /\ SumSeq([k \in 1..Len(AllocationsOfScenario) |-> Low(k)])
                 <= calc.paidCents[people[i].id]
            /\ calc.paidCents[people[i].id]
                 <= SumSeq([k \in 1..Len(AllocationsOfScenario) |-> High(k)])

\* 100.00 paid by two of three people with nothing typed, next to a second
\* expense paid by the first person
C12_Witness ==
  /\ calc.done /\ scenario = "group-expense" /\ Len(people) = 3
  /\ Len(groupExpense.items) = 2
  /\ groupExpense.items[1].amount = 5
  /\ groupExpense.items[1].payers = (1 :> 0 @@ 2 :> 0)
  /\ groupExpense.items[2].amount = 100000
  /\ calc.paidCents = (0 :> 10000 @@ 1 :> 1 @@ 2 :> 0)

-----------------------------------------------------------------------------
(* Claims about degenerate expenses, checked under SpecCalc *)

\* what expense k of the scenario adds to the owed total of person id when
\* expenses that cost nothing or have nobody checked add nothing: the even
\* share of its cost, one cent more for the first participants
ExpectedItemShare(k, id) ==
  LET e == ExpensesOfScenario[k]
      n == Len(e.participants)
  IN IF e.cents = 0 \/ n = 0 \/ id \notin Range(e.participants) THEN 0
     ELSE (e.cents \div n)
            + (IF (CHOOSE j \in 1..n : e.participants[j] = id) <= e.cents % n
               THEN 1 ELSE 0)

\* C19: an expense with zero amount or with an empty participant list adds
\* nothing to anybody's owed total, the owed computation completes, and what
\* the other expenses contribute is unaffected (when no tax/tip is charged the
\* owed ledger is exactly the sum of the other expenses' shares).
C19_DegenerateExpensesAddNothing ==
  (calc.done /\ TaxTipCharged = 0) =>
    \A i \in 1..Len(people) :
      calc.owedCents[people[i].id] =
        SumSeq([k \in 1..Len(ExpensesOfScenario) |-> ExpectedItemShare(k, people[i].id)])

\* a group expense of 100.00 with nobody checked next to one of 100.00 shared
\* by three people
C19_Witness ==
  /\ calc.done /\ scenario = "group-expense" /\ Len(people) = 3
  /\ Len(groupExpense.items) = 2
  /\ groupExpense.items[1].amount = 100000 /\ groupExpense.items[1].participants = <<>>
  /\ groupExpense.items[2].amount = 100000
  /\ calc.owedCents = (0 :> 3334 @@ 1 :> 3333 @@ 2 :> 3333)

\* the scenario has no expenses, or only expenses that cost nothing
NoCostedExpense ==
  \A k \in 1..Len(ExpensesOfScenario) : ExpensesOfScenario[k].cents = 0

\* every ledger and net of the last calculation is zero for every roster
\* person and there is no transfer
AllZeroResult ==
  /\ \A i \in 1..Len(people) :
       /\ calc.owedCents[people[i].id] = 0
       /\ calc.paidCents[people[i].id] = 0
       /\ calc.people[i].netCents = 0
  /\ Len(calc.people) = Len(people)
  /\ calc.settlements = <<>>

\* C20 (as claimed): with no expenses, or with expenses that all have zero
\* amount, the calculation returns owed, paid and net balances that are zero
\* for every roster person and an empty transfer list.
C20_DegenerateAllZero ==
  (calc.done /\ NoCostedExpense) => AllZeroResult

\* C20 (amended): the same, provided that in the restaurant scenario the
\* tax/tip is disabled or zero and no payer amount is typed.
C20_DegenerateAllZeroAmended ==
  (/\ calc.done /\ NoCostedExpense
   /\ scenario = "restaurant" =>
        /\ ~restaurant.taxTipEnabled \/ restaurant.taxTipAmount = 0
        /\ \A pid \in DOMAIN restaurant.payers : restaurant.payers[pid] = 0)
    => AllZeroResult

\* three people and one group expense without an amount for which a payer
\* typed 40.00
C20_Witness ==
  /\ calc.done /\ scenario = "group-expense" /\ Len(people) = 3
  /\ Len(groupExpense.items) = 1 /\ groupExpense.items[1].amount = 0
  /\ groupExpense.items[1].participants = <<0, 1, 2>>
  /\ groupExpense.items[1].payers = (0 :> 4000)
  /\ AllZeroResult

-----------------------------------------------------------------------------
(* Claims about the restaurant tax/tip, checked under SpecTaxTip *)

\* the item subtotal of the i-th roster person in cents: every item is one
\* person's own
OwnSubtotal(i) ==
  SumSeq([k \in 1..Len(restaurant.items) |->
            IF restaurant.items[k].participants = <<people[i].id>>
            THEN (restaurant.items[k].amount * restaurant.items[k].qty + 5) \div 10
            ELSE 0])

TotalSubtotal == SumSeq([i \in 1..Len(people) |-> OwnSubtotal(i)])

\* the tax/tip typed, in cents
TypedTaxTipCents == (restaurant.taxTipAmount + 5) \div 10

\* what the calculation added to the i-th person's subtotal
TaxTipShare(i) == calc.owedCents[people[i].id] - OwnSubtotal(i)

\* the tax/tip is charged proportionally
ProportionalCharged ==
  /\ calc.done /\ restaurant.taxTipEnabled /\ restaurant.taxTipAmount > 0
  /\ restaurant.taxTipMethod = "proportional" /\ TotalSubtotal > 0

C13_SharesSumToTaxTip ==
  ProportionalCharged =>
    SumSeq([i \in 1..Len(people) |-> TaxTipShare(i)]) = TypedTaxTipCents

\* the double floor falls short: 1.00 of tax/tip on subtotals of 29.00 and
\* 71.00 is charged as 28 and 72 cents
C13_DoubleFloorReached ==
  /\ ProportionalCharged /\ Len(people) = 2
  /\ OwnSubtotal(1) = 2900 /\ OwnSubtotal(2) = 7100 /\ TypedTaxTipCents = 100
  /\ TaxTipShare(1) = 28 /\ TaxTipShare(2) = 72

\* C14: with method 'equal' and a positive enabled amount, round(amount x 100)
\* cents are split over all roster members in roster order (the first ones
\* get the remainder cents), people without any item included, and the added
\* shares sum exactly to the tax/tip cents.
C14_EqualTaxTip ==
  (/\ calc.done /\ restaurant.taxTipEnabled /\ restaurant.taxTipAmount > 0
   /\ restaurant.taxTipMethod = "equal") =>
    LET n == Len(people)
    IN /\ SumSeq([i \in 1..n |-> TaxTipShare(i)]) = TypedTaxTipCents
       /\ \A i \in 1..n :
            TaxTipShare(i) = (TypedTaxTipCents \div n)
                               + (IF i <= TypedTaxTipCents % n THEN 1 ELSE 0)

\* 1.00 split over three people of whom only the last has an item
C14_Witness ==
  /\ calc.done /\ restaurant.taxTipEnabled /\ restaurant.taxTipMethod = "equal"
  /\ Len(people) = 3 /\ TypedTaxTipCents = 100
  /\ OwnSubtotal(1) = 0 /\ OwnSubtotal(2) = 0 /\ OwnSubtotal(3) = 2900
  /\ Len(restaurant.items) = 1
  /\ calc.owedCents = (0 :> 34 @@ 1 :> 33 @@ 2 :> 2933)

-----------------------------------------------------------------------------
(* Claims about the roster, checked under SpecRoster *)

\* every person id found in a participant list or a payer map of the page
ReferencedIds ==
  LET OfItems(items) ==
        UNION {Range(items[k].participants) : k \in 1..Len(items)}
      OfPayers(items) ==
        UNION {DOMAIN items[k].payers : k \in 1..Len(items)}
  IN OfItems(restaurant.items) \cup DOMAIN restaurant.payers
       \cup OfItems(groupExpense.items) \cup OfPayers(groupExpense.items)
       \cup OfItems(trip.lodgingItems) \cup OfPayers(trip.lodgingItems)
       \cup OfItems(trip.sharedItems) \cup OfPayers(trip.sharedItems)

\* C17: after any sequence of addPerson, removePerson, add/remove expense,
\* participant and payer checkbox changes and reset, every person id in any
\* participant list or payer map is the id of a person of the roster.
C17_ReferentialIntegrity ==
  ReferencedIds \subseteq {people[i].id : i \in 1..Len(people)}

\* person 0, the payer of the restaurant bill and of the group expense and a
\* participant of both, was removed
C17_Witness ==
  /\ Len(people) = 1 /\ people[1].id = 1
  /\ restaurant.payers = EmptyMap
  /\ Len(restaurant.items) = 1 /\ restaurant.items[1].participants = <<1>>
  /\ Len(groupExpense.items) = 1 /\ groupExpense.items[1].participants = <<1>>
  /\ groupExpense.items[1].payers = EmptyMap

\* C18: the roster never drops below one person, and removePerson on a
\* one-person roster changes nothing in the state.
C18_RosterNeverEmpty ==
  /\ [](Len(people) >= 1)
  /\ [][(Len(people) = 1 /\ RemovePersonClick) => UNCHANGED vars]_vars

\* both people of the initial roster were removed, a person added in between
\* is the one left
C18_Witness ==
  /\ Len(people) = 1 /\ people[1].id = 2

-----------------------------------------------------------------------------
(* Claims about typed input, checked under SpecInput *)

\* all the items of the page
AllItems ==
  restaurant.items \o groupExpense.items \o trip.lodgingItems \o trip.sharedItems

\* all the payer maps of the page
AllPayerMaps ==
  <<restaurant.payers>>
    \o [k \in 1..Len(groupExpense.items) |-> groupExpense.items[k].payers]
    \o [k \in 1..Len(trip.lodgingItems) |-> trip.lodgingItems[k].payers]
    \o [k \in 1..Len(trip.sharedItems) |-> trip.sharedItems[k].payers]

\* C16 (as claimed): after any sequence of amount, quantity and payer-amount
\* input events every stored amount is zero or more and every stored quantity
\* is one or more, so that every expense cost and every entry of the owed and
\* paid ledgers the calculation computes is a non-negative number of cents.
C16_InputsClamped ==
  /\ \A k \in 1..Len(AllItems) : AllItems[k].amount >= 0
  /\ \A k \in 1..Len(restaurant.items) : restaurant.items[k].qty >= 1
  /\ \A k \in 1..Len(groupExpense.items) : groupExpense.items[k].qty >= 1
  /\ \A k \in 1..Len(AllPayerMaps) :
       \A pid \in DOMAIN AllPayerMaps[k] : AllPayerMaps[k][pid] >= 0
  /\ restaurant.taxTipAmount >= 0
  /\ \A i \in 1..Len(people) :
       /\ OwedOfScenario[people[i].id] >= 0
       /\ computePaid[people[i].id] >= 0

\* the part of C16 that holds: a quantity that is not a number, or is zero or
\* negative, is stored as one
C16_QuantityAtLeastOne ==
  /\ \A k \in 1..Len(restaurant.items) : restaurant.items[k].qty >= 1
  /\ \A k \in 1..Len(groupExpense.items) : groupExpense.items[k].qty >= 1

\* -5.00 typed as the cost of the restaurant item: each of the two people owes
\* -250 cents and the payer is credited -500
C16_NegativeLedgerReached ==
  /\ scenario = "restaurant" /\ Len(restaurant.items) = 1
  /\ restaurant.items[1].amount = 0 - 5000 /\ restaurant.items[1].qty = 1
  /\ restaurant.payers = (0 :> 0) /\ ~restaurant.taxTipEnabled
  /\ OwedOfScenario = (0 :> 0 - 250 @@ 1 :> 0 - 250)
  /\ computePaid = (0 :> 0 - 500 @@ 1 :> 0)

-----------------------------------------------------------------------------
(* Claims about the settlement loop, checked under SpecLoop *)

\* followed step by step, the loop returns what computeSettlement returns
LoopAgreesWithComputeSettlement ==
  settle.pc = "done" =>
    LET r == computeSettlement(settle.owedCents, settle.paidCents)
    IN settle.people = r.people /\ settle.settlements = r.settlements

\* the queue is non-empty and its head has the largest remaining amount
HeadIsLargest(queue) ==
  \A k \in 1..Len(queue) : queue[k].amountCents <= queue[1].amountCents

\* C22 (as claimed): at every iteration of the settlement loop the debtor
\* chosen has the largest remaining owed amount among the remaining debtors
\* and the creditor chosen has the largest remaining credit among the
\* remaining creditors.
C22_GreedyTakesLargest ==
  (settle.pc = "loop" /\ Len(settle.debtors) > 0 /\ Len(settle.creditors) > 0) =>
    HeadIsLargest(settle.debtors) /\ HeadIsLargest(settle.creditors)

\* debts 4 and 2 against credits 3 and 3: after the first transfer of 3 the
\* loop takes the debtor with 1 left while a debtor with 2 waits
C22_SmallerDebtorTakenReached ==
  /\ settle.pc = "loop"
  /\ Len(settle.debtors) = 2 /\ Len(settle.creditors) = 1
  /\ settle.debtors[1].amountCents = 1 /\ settle.debtors[2].amountCents = 2
  /\ settle.creditors[1].amountCents = 3

\* what does hold: the first iteration takes the largest debtor and the
\* largest creditor, and the party not taken first stays sorted
C22_FirstIterationTakesLargest ==
  (settle.pc = "loop" /\ settle.settlements = <<>>
     /\ Len(settle.debtors) > 0 /\ Len(settle.creditors) > 0) =>
    HeadIsLargest(settle.debtors) /\ HeadIsLargest(settle.creditors)


\* parties still waiting in the two queues
QueuedParties == Len(settle.debtors) + Len(settle.creditors)

\* C23: for any owed and paid ledgers the loop of computeSettlement
\* terminates, each iteration removes at least one party from the debtor or
\* the creditor queue, and when the loop exits both queues are empty.
C23_LoopTerminates ==
  /\ <>(settle.pc = "done")
  /\ [][LoopIteration =>
          Len(settle'.debtors) + Len(settle'.creditors) < QueuedParties]_vars
  /\ [](settle.pc = "done" => Len(settle.debtors) = 0 /\ Len(settle.creditors) = 0)

\* the loop has run three iterations and has left both queues empty
C23_Witness ==
  /\ settle.pc = "done"
  /\ Len(settle.settlements) = 3
  /\ Len(settle.debtors) = 0 /\ Len(settle.creditors) = 0


-----------------------------------------------------------------------------
(* Further claims about calculate, checked under SpecCalc *)

\* C25: a run of calculate (owed computation, computePaid, computeSettlement)
\* leaves the roster, every expense's amount, quantity, participant list and
\* payer map, the tax/tip settings, the selected scenario and all id counters
\* unchanged.
C25_CalculateLeavesStateAlone ==
  [][calc'.runs # calc.runs =>
       UNCHANGED <<people, scenario, restaurant, groupExpense, trip, nextIds>>]_vars

\* a restaurant bill with tax/tip and the payer fallback has been calculated
C25_Witness ==
  /\ calc.runs = 1 /\ calc.active
  /\ scenario = "restaurant" /\ restaurant.taxTipEnabled
  /\ SumMap(restaurant.payers) = 0 /\ DOMAIN restaurant.payers # {}
  /\ Len(calc.settlements) >= 1


-----------------------------------------------------------------------------
(* Further claims about the roster and the page, checked under SpecRoster *)

\* position of a person id in the roster
RosterPosition(id) == CHOOSE i \in 1..Len(people) : people[i].id = id

\* the list names roster people in the order the roster has them
InRosterOrder(participants) ==
  \A a \in 1..Len(participants), b \in 1..Len(participants) :
    a < b => RosterPosition(participants[a]) < RosterPosition(participants[b])

\* C26 (as claimed): after any sequence of addPerson, removePerson and
\* participant checkbox toggles every expense's participant list is ordered
\* as the roster is, so the remainder cents of an even split go to the
\* participants that come first in the roster.
C26_ParticipantsInRosterOrder ==
  \A k \in 1..Len(AllItems) : InRosterOrder(AllItems[k].participants)

\* the first person unchecked and checked again on the restaurant item: the
\* list reads <<1, 0>> and the odd cent of a split goes to person 1
C26_RecheckedGoesLastReached ==
  /\ PeopleIds = <<0, 1>>
  /\ Len(restaurant.items) = 1 /\ restaurant.items[1].participants = <<1, 0>>
  /\ distributeCentsEvenly(1, restaurant.items[1].participants) = (0 :> 0 @@ 1 :> 1)

\* what does hold: every participant list names roster people, each once
C26_ParticipantsDistinctRosterPeople ==
  \A k \in 1..Len(AllItems) :
    /\ Range(AllItems[k].participants) \subseteq Range(PeopleIds)
    /\ Cardinality(Range(AllItems[k].participants)) = Len(AllItems[k].participants)


\* tax/tip plays no part: another scenario, or the restaurant with it disabled
NoTaxTip == scenario = "restaurant" => ~restaurant.taxTipEnabled

\* every expense that costs something has at least one participant
CostedExpensesShared ==
  \A k \in 1..Len(ExpensesOfScenario) :
    ExpensesOfScenario[k].cents # 0 => ExpensesOfScenario[k].participants # <<>>

\* C27: in the group-expense and trip scenarios, and in the restaurant
\* scenario with tax/tip disabled, if no payer amount is typed, every expense
\* with non-zero cost has a participant and every payer set is non-empty,
\* then sum(paid) = sum(owed) before the correction, and the correction
\* changes no one's net balance.
C27_NoImbalanceWithoutTyping ==
  (calc.done /\ NoTaxTip /\ AllUntyped /\ CostedExpensesShared) =>
    /\ SumMap(calc.paidCents) = SumMap(calc.owedCents)
    /\ \A i \in 1..Len(calc.people) :
         calc.people[i].netCents
           = calc.paidCents[calc.people[i].id] - calc.owedCents[calc.people[i].id]

\* a restaurant bill of two items, one with quantity 2, shared by three
\* people and paid by two of them with nothing typed
C27_Witness ==
  /\ calc.done /\ NoTaxTip /\ AllUntyped /\ CostedExpensesShared
  /\ scenario = "restaurant" /\ Len(people) = 3
  /\ Len(restaurant.items) = 2 /\ restaurant.items[1].qty = 2
  /\ SumMap(calc.owedCents) = 20001
  /\ Cardinality(DOMAIN restaurant.payers) = 2
  /\ Len(calc.settlements) >= 1


-----------------------------------------------------------------------------
(* Claims about person ids, checked under SpecPeople *)

\* no two roster people have the same id
IdsDistinct == \A i \in 1..Len(people), j \in 1..Len(people) :
                 i # j => people[i].id # people[j].id

\* every id in the roster has been handed out by the counter
IdsHandedOut == \A i \in 1..Len(people) : people[i].id < nextIds.nextPersonId

\* a step that is not a reset: the counter does not go back, the people who
\* stay keep their ids and their order, and a person who joins gets an id
\* the counter had not handed out
IdsKeptByStep ==
  /\ nextIds'.nextPersonId >= nextIds.nextPersonId
  /\ SelectSeq(PeopleIds', LAMBDA id : id \in Range(PeopleIds))
       = SelectSeq(PeopleIds, LAMBDA id : id \in Range(PeopleIds'))
  /\ \A id \in Range(PeopleIds') \ Range(PeopleIds) : id >= nextIds.nextPersonId

\* C28: in every state reachable by addPerson, removePerson, rename and reset
\* no two roster people have the same id, an id given to a person never
\* changes while that person is in the roster, and between two resets a
\* removed person's id is never given to a new person.
C28_PersonIdsUniqueAndStable ==
  /\ [](IdsDistinct /\ IdsHandedOut)
  /\ [][resetFairSplit \/ IdsKeptByStep]_vars

\* Person 2 was removed and two people were added since: ids 0, 2 and 3, the
\* two newcomers both named "Person 3", one of them renamed afterwards
C28_Witness ==
  /\ PeopleIds = <<0, 2, 3>> /\ nextIds.nextPersonId = 4
  /\ people[2].name = TypedName /\ people[3].name = PersonName(3)

\* without any rename two roster people can carry the same default name
DuplicateDefaultNameReached ==
  /\ Len(people) = 3
  /\ people[2].name = PersonName(3) /\ people[3].name = PersonName(3)


-----------------------------------------------------------------------------
(* Claims about the reset, checked under SpecReset *)

\* C29: resetFairSplit, from any reachable state, restores the roster to two
\* people with ids 0 and 1, restores the restaurant, group-expense and trip
\* expenses, tax/tip settings and payer maps to their initial values, sets
\* every id counter back to its initial value, hides the results, and leaves
\* the selected scenario unchanged.
C29_ResetRestoresInitialState ==
  [][resetFairSplit =>
       /\ PeopleIds' = <<0, 1>> /\ people' = IdlePeople
       /\ restaurant' = InitialRestaurant
       /\ groupExpense' = InitialGroupExpense
       /\ trip' = InitialTrip
       /\ nextIds' = IdleNextIds
       /\ ~calc'.active
       /\ scenario' = scenario]_vars

\* a trip with a lodging item was calculated for the roster [0, 2] and shown,
\* and the page is back in its initial state with the trip still selected
C29_Witness ==
  /\ calc.done /\ SumMap(calc.owedCents) # 0 /\ ~calc.active
  /\ Len(calc.people) = 2 /\ calc.people[2].id = 2
  /\ scenario = "trip"
  /\ people = IdlePeople /\ nextIds = IdleNextIds
  /\ restaurant = InitialRestaurant /\ groupExpense = InitialGroupExpense
  /\ trip = InitialTrip


-----------------------------------------------------------------------------
(* Claims about the overtime calculator, checked under SpecOvertime *)

\* the number a field holds, 0 when it is blank
Typed(field) == IF field = <<>> THEN 0 ELSE field[1]

\* a negative hourly rate or negative overtime hours is flagged
Flagged == Typed(overtime.hourlyRate) < 0 \/ Typed(overtime.overtimeHours) < 0

\* the multiplier in hundredths: the option chosen, or the custom value, 1.5
\* when that is blank
ChosenMultiplier ==
  IF overtime.multiplierSelect = "1.5" THEN 150
  ELSE IF Typed(overtime.customMultiplier) = 0 THEN 150
  ELSE Typed(overtime.customMultiplier)

\* C30: when the hourly rate is not positive, or a negative hourly rate or
\* negative overtime hours is flagged, every result calculate() displays is
\* zero; otherwise the overtime rate is the directly entered overtime rate
\* when that is positive and hourly rate x multiplier when it is not, regular
\* hours are 40 when blank or zero, and total pay = overtime rate x overtime
\* hours + hourly rate x regular hours.
C30_OvertimePay ==
  overtime.calculated =>
    LET r == overtime.results
    IN IF Typed(overtime.hourlyRate) <= 0 \/ Flagged
       THEN \A f \in DOMAIN r : r[f] = 0
       ELSE /\ r.overtimeRate = IF Typed(overtime.overtimeRate) > 0
                                THEN Typed(overtime.overtimeRate) * 100
                                ELSE Typed(overtime.hourlyRate) * ChosenMultiplier
            /\ r.regularHours = IF Typed(overtime.regularHours) = 0 THEN 40
                                ELSE Typed(overtime.regularHours)
            /\ r.totalPay = r.overtimeRate * Typed(overtime.overtimeHours)
                              + Typed(overtime.hourlyRate) * 100 * r.regularHours

\* 20.00 an hour, 10 overtime hours at a directly entered 35.00, 32 regular
\* hours: 350.00 + 640.00
C30_Witness ==
  /\ overtime.calculated
  /\ overtime.hourlyRate = <<2000>> /\ overtime.overtimeRate = <<3500>>
  /\ overtime.overtimeHours = <<10>> /\ overtime.regularHours = <<32>>
  /\ overtime.results.totalPay = 9900000

\* results of an earlier calculation stay on the page when the hourly rate
\* field is emptied: the 'input' listener does not call calculate() then
StaleResultsReached ==
  /\ overtime.hourlyRate = <<>> /\ ~overtime.calculated
  /\ overtime.results.totalPay > 0


====
